---- MODULE Spec2Model ----
(***************************************************************************)
(* A model of osmnx/routing.py: weighted shortest paths (single pair,      *)
(* batch, k shortest), the projection of a node path onto concrete edges,  *)
(* and the imputation of edge speeds.                                      *)
(*                                                                         *)
(* The graph is a sequence of edges in insertion order.  networkx keeps    *)
(* adjacency in insertion order, so the order of the sequence fixes the    *)
(* order in which neighbours and parallel edges are visited.  The key of   *)
(* a parallel edge is its rank among the edges of the same (u, v).         *)
(***************************************************************************)
EXTENDS Integers, Sequences, FiniteSets, TLC

VARIABLES
    G,        \* the graph: a sequence of edge records
    op,       \* the operation that has run: "idle" before any has
    args,     \* the inputs the operation was called with
    result,   \* what the operation returned or raised
    pool,     \* the worker pool of a parallel batch
    gen       \* the generator that k_shortest_paths returned

vars == <<G, op, args, result, pool, gen>>

(***************************************************************************)
(* Bounds of the model.                                                    *)
(***************************************************************************)
MaxEdges == 4

Nodes == 1..4

\* Ordered node pairs that may carry edges, in the order edges are inserted.
EdgePairs == << <<1, 2>>, <<1, 3>>, <<1, 4>>, <<2, 3>>, <<3, 2>>, <<2, 4>>, <<3, 4>> >>

\* Values of the weight attribute ("length").
Weights == {1, 3}

(***************************************************************************)
(* Routing graphs.                                                         *)
(***************************************************************************)
\* An edge of a routing graph: its weight attribute "length" holds the number w.
\* lengthType tells what the attribute holds: "number", "null" (the value
\* None), "missing" (the edge has no such attribute) or "text" (a string
\* that does not convert to a number).
RoutingEdge(p, w) ==
    [u |-> EdgePairs[p][1], v |-> EdgePairs[p][2], pair |-> p,
     length |-> w, lengthType |-> "number"]

RECURSIVE TotalUpTo(_, _)
\* The number of edges that the counts c give to the pairs 1..p.
TotalUpTo(c, p) ==
    IF p = 0 THEN 0
    ELSE (IF p \in DOMAIN c THEN c[p] ELSE 0) + TotalUpTo(c, p - 1)

\* The graph with c[p] parallel edges on pair p, inserted in the order of
\* EdgePairs, the i-th edge inserted weighing w[i].
BuildGraph(c, w) ==
    [i \in 1..TotalUpTo(c, Len(EdgePairs)) |->
        RoutingEdge(CHOOSE p \in DOMAIN c : TotalUpTo(c, p - 1) < i /\ i <= TotalUpTo(c, p),
                    w[i])]

\* g is a graph of at most n edges over the pairs P of EdgePairs.
IsGraphOver(g, P, n) ==
    \E c \in [P -> 0..n] :
        /\ TotalUpTo(c, Len(EdgePairs)) <= n
        /\ \E w \in [1..TotalUpTo(c, Len(EdgePairs)) -> Weights] : g = BuildGraph(c, w)

AllPairs == 1..Len(EdgePairs)

(***************************************************************************)
(* Graph access, as networkx gives it.                                     *)
(***************************************************************************)
RECURSIVE Dedup(_)
\* A sequence without its repeated elements, first occurrences kept in order.
Dedup(s) ==
    IF s = <<>> THEN <<>>
    ELSE LET init == Dedup(SubSeq(s, 1, Len(s) - 1))
             x == s[Len(s)]
         IN IF \E i \in 1..Len(init) : init[i] = x THEN init ELSE Append(init, x)

\* G._succ[v]: the successors of v, in the order their first edge was added.
Succ(g, v) ==
    LET out == SelectSeq(g, LAMBDA e : e.u = v)
    IN Dedup([i \in 1..Len(out) |-> out[i].v])

\* G._pred[v]: the predecessors of v, in the order their first edge was added.
Pred(g, v) ==
    LET inc == SelectSeq(g, LAMBDA e : e.v = v)
    IN Dedup([i \in 1..Len(inc) |-> inc[i].u])

\* G[u][v]: the parallel edges from u to v; position k + 1 holds the edge of key k.
EdgeData(g, u, v) == SelectSeq(g, LAMBDA e : e.u = u /\ e.v = v)

HasEdge(g, u, v) == EdgeData(g, u, v) # <<>>

SeqMin(s) == CHOOSE x \in {s[i] : i \in 1..Len(s)} : \A j \in 1..Len(s) : x <= s[j]

\* The weight of the first parallel edge (key 0) instead of the least one.
WeightOfFirstKey(g, u, v) == EdgeData(g, u, v)[1].length

\* The cost None of an edge, which hides it from the search.
NoCost == -1

\* attr.get(weight, 1) of an edge's attributes: 1 when the edge has no
\* weight attribute, None when its value is None.
AttrGet(e) ==
    IF e.lengthType = "missing" THEN 1
    ELSE IF e.lengthType = "null" THEN NoCost
    ELSE e.length

\* networkx's weight function on a multigraph: the least weight among the
\* parallel edges from u to v.  (Python's min() cannot compare None with
\* another value: an edge whose value is None has no parallel edge in the
\* graphs modelled.)
MinWeight(g, u, v) ==
    LET es == EdgeData(g, u, v)
    IN SeqMin([i \in 1..Len(es) |-> AttrGet(es[i])])

(***************************************************************************)
(* networkx's bidirectional Dijkstra, the solver behind                    *)
(* nx.shortest_path(method="dijkstra") for one source and one target and   *)
(* behind nx.shortest_simple_paths.  The state s of the search holds, per  *)
(* direction (1: forward, 2: backward), the final distances `dists`, the   *)
(* tentative distances `seen` (-1: not there), the paths, the heap         *)
(* `fringe` of <<distance, counter, node>> and the best meeting path.      *)
(***************************************************************************)
\* heappop: the least tuple of the heap; the counter makes tuples unique.
HeapMin(h) ==
    CHOOSE t \in h : \A x \in h : t[1] < x[1] \/ (t[1] = x[1] /\ t[2] <= x[2])

\* The neighbours of v the search may step to: successors going forward,
\* predecessors going backward, without the ignored nodes and edges.
Neighs(g, dir, v, ignoreNodes, ignoreEdges) ==
    SelectSeq(IF dir = 1 THEN Succ(g, v) ELSE Pred(g, v),
              LAMBDA w : /\ w \notin ignoreNodes
                         /\ (IF dir = 1 THEN <<v, w>> ELSE <<w, v>>) \notin ignoreEdges)

BDInit(source, target) ==
    [ dists     |-> << [n \in Nodes |-> -1], [n \in Nodes |-> -1] >>,
      seen      |-> << [n \in Nodes |-> IF n = source THEN 0 ELSE -1],
                       [n \in Nodes |-> IF n = target THEN 0 ELSE -1] >>,
      paths     |-> << [n \in Nodes |-> IF n = source THEN <<source>> ELSE <<>>],
                       [n \in Nodes |-> IF n = target THEN <<target>> ELSE <<>>] >>,
      fringe    |-> << {<<0, 0, source>>}, {<<0, 1, target>>} >>,
      c         |-> 2,
      finaldist |-> 0,
      finalpath |-> <<>>,
      dir       |-> 2 ]

Reverse(s) == [i \in 1..Len(s) |-> s[Len(s) + 1 - i]]

RECURSIVE BDRelax(_, _, _, _, _)
\* The loop over the neighbours ws of the node v just settled in direction dir.
BDRelax(g, s, dir, v, ws) ==
    IF ws = <<>> THEN s
    ELSE LET w == Head(ws)
             cost == IF dir = 1 THEN MinWeight(g, v, w) ELSE MinWeight(g, w, v)
             vwLength == s.dists[dir][v] + cost
         IN IF cost = NoCost
            THEN BDRelax(g, s, dir, v, Tail(ws))
            ELSE IF s.dists[dir][w] # -1
            THEN BDRelax(g, s, dir, v, Tail(ws))
            ELSE IF s.seen[dir][w] = -1 \/ vwLength < s.seen[dir][w]
            THEN LET s1 == [s EXCEPT !.seen[dir][w] = vwLength,
                                     !.fringe[dir] = @ \cup {<<vwLength, s.c, w>>},
                                     !.c = @ + 1,
                                     !.paths[dir][w] = Append(s.paths[dir][v], w)]
                     both == s1.seen[1][w] # -1 /\ s1.seen[2][w] # -1
                     totaldist == s1.seen[1][w] + s1.seen[2][w]
                     s2 == IF both /\ (s1.finalpath = <<>> \/ s1.finaldist > totaldist)
                           THEN [s1 EXCEPT !.finaldist = totaldist,
                                           !.finalpath = s1.paths[1][w]
                                                \o Tail(Reverse(s1.paths[2][w]))]
                           ELSE s1
                 IN BDRelax(g, s2, dir, v, Tail(ws))
            ELSE BDRelax(g, s, dir, v, Tail(ws))

RECURSIVE BDLoop(_, _, _, _)
\* The main loop: alternate directions, settle the closest node of the heap,
\* stop when a node is settled in both directions.
BDLoop(g, s, ignoreNodes, ignoreEdges) ==
    IF s.fringe[1] = {} \/ s.fringe[2] = {}
    THEN [found |-> FALSE, dist |-> 0, path |-> <<>>]
    ELSE LET dir == 3 - s.dir
             top == HeapMin(s.fringe[dir])
             v == top[3]
             s1 == [s EXCEPT !.dir = dir, !.fringe[dir] = @ \ {top}]
         IN IF s1.dists[dir][v] # -1
            THEN BDLoop(g, s1, ignoreNodes, ignoreEdges)
            ELSE LET s2 == [s1 EXCEPT !.dists[dir][v] = top[1]]
                 IN IF s2.dists[3 - dir][v] # -1
                    THEN [found |-> TRUE, dist |-> s2.finaldist, path |-> s2.finalpath]
                    ELSE BDLoop(g,
                                BDRelax(g, s2, dir, v,
                                        Neighs(g, dir, v, ignoreNodes, ignoreEdges)),
                                ignoreNodes, ignoreEdges)

\* [found, dist, path]: a least-weight path from source to target that avoids
\* the ignored nodes and edges; found = FALSE stands for NetworkXNoPath.
BidirectionalDijkstra(g, source, target, ignoreNodes, ignoreEdges) ==
    IF source \in ignoreNodes \/ target \in ignoreNodes
    THEN [found |-> FALSE, dist |-> 0, path |-> <<>>]
    ELSE IF source = target
    THEN [found |-> TRUE, dist |-> 0, path |-> <<source>>]
    ELSE BDLoop(g, BDInit(source, target), ignoreNodes, ignoreEdges)

(***************************************************************************)
(* shortest_path and its helpers.                                          *)
(***************************************************************************)
\* What solving one pair gives: a path, or None.
Path(p) == [kind |-> "path", path |-> p]
None    == [kind |-> "none", path |-> <<>>]

\* What an operation returns or raises: one path or None, a list of such
\* (items), or the exception e.  "pending" stands for no value yet.
Returned(x)     == [kind |-> x.kind, path |-> x.path, items |-> <<>>]
ReturnedList(l) == [kind |-> "list", path |-> <<>>, items |-> l]
Raised(e)       == [kind |-> e, path |-> <<>>, items |-> <<>>]
Pending         == [kind |-> "pending", path |-> <<>>, items |-> <<>>]

\* An origin or destination argument: one node ID, or an iterable of node IDs.
Scalar(n) == [scalar |-> TRUE, nodes |-> <<n>>]
Listed(l) == [scalar |-> FALSE, nodes |-> l]

\* The exceptions of routing.py, told apart by their messages.
InvalidAttributeType == "ValueError: the edge attribute contains non-numeric values"
MixedCardinality     == "TypeError: orig and dest must either both be iterable or neither"
MismatchedLengths    == "ValueError: orig and dest must be of equal length"
TooManyIndices       == "IndexError: too many indices for array"

\* The verification with an array of floats built at once: a value that is
\* missing or None makes it fail like a string that is not a number.
VerifyRejectingNull(g) ==
    IF g = <<>> THEN TooManyIndices
    ELSE IF \E i \in 1..Len(g) : g[i].lengthType # "number" THEN InvalidAttributeType
    ELSE "ok"

\* _verify_edge_attribute: "ok", "warn" (a UserWarning, the call goes on), or
\* the exception raised.  Indexing column 2 of the array built from no edge
\* at all raises IndexError, which the except clause does not catch.
_verify_edge_attribute(g) ==
    IF g = <<>> THEN TooManyIndices
    ELSE IF \E i \in 1..Len(g) : g[i].lengthType = "text" THEN InvalidAttributeType
    ELSE IF \E i \in 1..Len(g) : g[i].lengthType \in {"null", "missing"} THEN "warn"
    ELSE "ok"

VerifyRaises(g) == _verify_edge_attribute(g) \notin {"ok", "warn"}

\* _single_shortest_path without its except clause: NetworkXNoPath escapes.
SingleShortestPathUncaught(g, orig, dest) ==
    LET r == BidirectionalDijkstra(g, orig, dest, {}, {})
    IN IF r.found THEN Path(r.path) ELSE [kind |-> "NetworkXNoPath", path |-> <<>>]

\* _single_shortest_path: the path networkx finds, or None when it raises
\* NetworkXNoPath.
_single_shortest_path(g, orig, dest) ==
    LET r == BidirectionalDijkstra(g, orig, dest, {}, {})
    IN IF r.found THEN Path(r.path) ELSE None

\* The list comprehension of the single-threaded branch; zip stops at the
\* shorter of its two lists.
SolveSequentially(g, orig, dest) ==
    [i \in 1..(IF Len(orig) < Len(dest) THEN Len(orig) ELSE Len(dest)) |->
        _single_shortest_path(g, orig[i], dest[i])]

\* The shape checks without the comparison of the lengths.
ShapeCheckWithoutLengths(orig, dest) ==
    IF orig.scalar # dest.scalar THEN MixedCardinality ELSE "ok"

\* The checks on the shape of orig and dest: the exception raised, or "ok".
ShapeCheck(orig, dest) ==
    IF orig.scalar # dest.scalar THEN MixedCardinality
    ELSE IF ~orig.scalar /\ Len(orig.nodes) # Len(dest.nodes) THEN MismatchedLengths
    ELSE "ok"

\* cpus = 0 stands for cpus=None: use all the ncpu cores of the machine.
EffectiveCpus(cpus, ncpu) ==
    LET asked == IF cpus = 0 THEN ncpu ELSE cpus
    IN IF asked < ncpu THEN asked ELSE ncpu

\* multiprocessing.Pool._map_async: the chunk size for n tasks on a pool of
\* `workers` processes.
ChunkSize(n, workers) ==
    IF n = 0 THEN 0
    ELSE (n \div (workers * 4)) + (IF n % (workers * 4) # 0 THEN 1 ELSE 0)

NumChunks(n, chunksize) ==
    IF chunksize <= 0 THEN 0
    ELSE (n \div chunksize) + (IF n % chunksize # 0 THEN 1 ELSE 0)

\* The pool with nothing to do.
NoPool ==
    [workers |-> 0, chunksize |-> 0, chunks |-> 0, next |-> 1,
     running |-> {}, left |-> 0, value |-> <<>>, finished |-> <<>>]

\* No generator of k_shortest_paths is held.  A generator holds the
\* arguments of its call; from its first resumption on it also holds the
\* digraph it searches, the paths it has yielded (listA) and the buffer of
\* candidate paths (B).
NoGenerator ==
    [state |-> "none", orig |-> 0, dest |-> 0, k |-> 0, digraph |-> <<>>,
     listA |-> <<>>, B |-> [heap |-> {}, counter |-> 0]]

\* Pool(cpus).starmap_async(_single_shortest_path, args): the tasks are cut
\* into chunks and queued in order; the result list is pre-sized.  `finished`
\* records the order in which the chunks came back.
StartPool(n, workers) ==
    LET cs == ChunkSize(n, workers)
    IN [workers |-> workers, chunksize |-> cs, chunks |-> NumChunks(n, cs),
        next |-> 1, running |-> {}, left |-> NumChunks(n, cs),
        value |-> [i \in 1..n |-> Pending], finished |-> <<>>]

\* shortest_path(G, orig, dest, weight="length", cpus=cpus) on a machine of
\* ncpu cores, up to the point where it returns, raises, or hands the pairs
\* to a worker pool.
ShortestPath(orig, dest, cpus, ncpu) ==
    /\ op = "idle"
    /\ args' = [orig |-> orig, dest |-> dest, cpus |-> cpus, ncpu |-> ncpu]
    /\ UNCHANGED <<G, gen>>
    /\ LET done(r) == op' = "shortest_path" /\ result' = r /\ pool' = NoPool
       IN IF VerifyRaises(G)
          THEN done(Raised(_verify_edge_attribute(G)))
          ELSE IF orig.scalar /\ dest.scalar
          THEN done(Returned(_single_shortest_path(G, orig.nodes[1], dest.nodes[1])))
          ELSE IF ShapeCheck(orig, dest) # "ok"
          THEN done(Raised(ShapeCheck(orig, dest)))
          ELSE IF EffectiveCpus(cpus, ncpu) = 1
          THEN done(ReturnedList(SolveSequentially(G, orig.nodes, dest.nodes)))
          ELSE /\ op' = "pool"
               /\ result' = Pending
               /\ pool' = StartPool(IF Len(orig.nodes) < Len(dest.nodes)
                                     THEN Len(orig.nodes) ELSE Len(dest.nodes),
                                     EffectiveCpus(cpus, ncpu))

\* The indices of the pairs of chunk c.
ChunkIndices(c) ==
    { i \in 1..Len(pool.value) :
        (c - 1) * pool.chunksize < i /\ i <= c * pool.chunksize }

\* An idle worker takes the next chunk of the task queue.
WorkerTake ==
    /\ op = "pool"
    /\ pool.next <= pool.chunks
    /\ Cardinality(pool.running) < pool.workers
    /\ pool' = [pool EXCEPT !.next = @ + 1, !.running = @ \cup {pool.next}]
    /\ UNCHANGED <<G, op, args, result, gen>>

\* The results of chunk c stored in the first free positions, in the order
\* in which the chunks come back.
SetChunkInArrivalOrder(value, c, g, orig, dest) ==
    LET free == { i \in 1..Len(value) : value[i] = Pending }
        rank(i) == Cardinality({ j \in free : j < i })
        mine(i) == CHOOSE j \in ChunkIndices(c) : Cardinality({ k \in ChunkIndices(c) : k < j }) = rank(i)
    IN [i \in 1..Len(value) |->
          IF i \in free /\ rank(i) < Cardinality(ChunkIndices(c))
          THEN _single_shortest_path(g, orig[mine(i)], dest[mine(i)])
          ELSE value[i]]

\* MapResult._set: the slice of chunk c receives the results of its pairs.
SetChunk(value, c, g, orig, dest) ==
    [i \in 1..Len(value) |->
        IF i \in ChunkIndices(c)
        THEN _single_shortest_path(g, orig[i], dest[i])
        ELSE value[i]]

\* A worker finishes chunk c, which it solved on its own copy of the graph,
\* and the result handler stores the results of the chunk.
WorkerFinish(c) ==
    /\ op = "pool"
    /\ c \in pool.running
    /\ pool' = [pool EXCEPT !.running = @ \ {c},
                            !.left = @ - 1,
                            !.finished = Append(@, c),
                            !.value = SetChunk(@, c, G, args.orig.nodes, args.dest.nodes)]
    /\ UNCHANGED <<G, op, args, result, gen>>

\* .get(): once every chunk is in, the list of results is returned.
PoolGet ==
    /\ op = "pool"
    /\ pool.left = 0
    /\ op' = "shortest_path"
    /\ result' = ReturnedList(pool.value)
    /\ UNCHANGED <<G, args, pool, gen>>

NoArgs == [orig |-> Scalar(0), dest |-> Scalar(0), cpus |-> 1, ncpu |-> 1]

(***************************************************************************)
(* Single-pair solving on every routing graph.                             *)
(***************************************************************************)
InitSingle ==
    /\ IsGraphOver(G, AllPairs, MaxEdges)
    /\ op = "idle"
    /\ args = NoArgs
    /\ result = Pending
    /\ pool = NoPool
    /\ gen = NoGenerator

NextSingle == \E o \in Nodes, d \in Nodes : ShortestPath(Scalar(o), Scalar(d), 1, 1)

SpecSingle == InitSingle /\ [][NextSingle]_vars

(***************************************************************************)
(* Batch solving: calls of every shape, sequential and on a worker pool.   *)
(***************************************************************************)
MaxPairs == 3

MaxCpus == 2

\* The origin-destination pairs a batch is made of.
BatchPairs == { <<1, 3>>, <<3, 1>> }

RECURSIVE SeqsUpTo(_, _)
\* The sequences over S of length at most n.
SeqsUpTo(S, n) ==
    IF n = 0 THEN {<<>>}
    ELSE LET shorter == SeqsUpTo(S, n - 1)
         IN shorter \cup { Append(q, x) : q \in {r \in shorter : Len(r) = n - 1}, x \in S }

PairLists == SeqsUpTo(BatchPairs, MaxPairs)

Origins(ps)      == [i \in 1..Len(ps) |-> ps[i][1]]
Destinations(ps) == [i \in 1..Len(ps) |-> ps[i][2]]

\* The ways a caller may pass the nodes l: as the list, as the list without
\* its last element, or as its first node alone.
ArgShapes(l) ==
    {Listed(l)} \cup
    (IF l = <<>> THEN {} ELSE {Listed(SubSeq(l, 1, Len(l) - 1)), Scalar(l[1])})

\* Batches are solved on the graphs of at most two edges of length 1 among
\* 1 -> 2, 1 -> 3 and 2 -> 3.
InitBatch ==
    /\ IsGraphOver(G, {1, 2, 4}, 2)
    /\ \A i \in 1..Len(G) : G[i].length = 1
    /\ op = "idle"
    /\ args = NoArgs
    /\ result = Pending
    /\ pool = NoPool
    /\ gen = NoGenerator

NextBatch ==
    \/ \E ps \in PairLists :
         \E orig \in ArgShapes(Origins(ps)), dest \in ArgShapes(Destinations(ps)) :
           \E cpus \in 0..MaxCpus, ncpu \in 1..MaxCpus :
             ShortestPath(orig, dest, cpus, ncpu)
    \/ WorkerTake
    \/ \E c \in 1..MaxPairs : WorkerFinish(c)
    \/ PoolGet

SpecBatch == InitBatch /\ [][NextBatch]_vars

(***************************************************************************)
(* k_shortest_paths: Yen's algorithm (nx.shortest_simple_paths) on the     *)
(* single-edge-per-pair reduction of the graph.                            *)
(***************************************************************************)
\* The key of the parallel edge min() picks: the first of least weight.
MinKey(es) ==
    CHOOSE k \in 1..Len(es) :
        /\ \A j \in 1..Len(es) : es[k].length <= es[j].length
        /\ \A j \in 1..(k - 1) : es[j].length > es[k].length

\* convert.to_digraph: of the parallel edges of each pair only the one of
\* least weight is kept; nx.DiGraph then lists the edges source by source.
to_digraph(g) ==
    LET keep(i) == LET es == EdgeData(g, g[i].u, g[i].v)
                       rank == Cardinality({ j \in 1..i : g[j].u = g[i].u /\ g[j].v = g[i].v })
                   IN rank = MinKey(es)
        kept == SelectSeq([i \in 1..Len(g) |-> [e |-> g[i], keep |-> keep(i)]],
                          LAMBDA x : x.keep)
        edges == [i \in 1..Len(kept) |-> kept[i].e]
        RECURSIVE BySource(_)
        BySource(n) ==
            IF n = 0 THEN <<>>
            ELSE BySource(n - 1) \o SelectSeq(edges, LAMBDA e : e.u = n)
    IN BySource(Cardinality(Nodes))

RECURSIVE length_func(_, _)
\* length_func of shortest_simple_paths: the sum of the edge weights of a path.
length_func(g, p) ==
    IF Len(p) <= 1 THEN 0
    ELSE MinWeight(g, p[1], p[2]) + length_func(g, Tail(p))

\* PathBuffer: a heap of <<cost, counter, path>> that holds no path twice.
EmptyBuffer == [heap |-> {}, counter |-> 0]

PathBufferPush(B, cost, path) ==
    IF \E t \in B.heap : t[3] = path THEN B
    ELSE [heap |-> B.heap \cup {<<cost, B.counter, path>>}, counter |-> B.counter + 1]

RECURSIVE YenSpursThroughRoot(_, _, _, _, _, _, _, _)
\* The deviations computed without ever adding the nodes of the root to the
\* ignored nodes: a spur may come back through the root.
YenSpursThroughRoot(g, target, prev, listA, B, ignoreNodes, ignoreEdges, i) ==
    IF i >= Len(prev) THEN B
    ELSE LET root == SubSeq(prev, 1, i)
             root_length == length_func(g, root)
             ignored == ignoreEdges \cup
                        { <<listA[j][i], listA[j][i + 1]>> :
                            j \in { n \in 1..Len(listA) :
                                    /\ Len(listA[n]) > i
                                    /\ SubSeq(listA[n], 1, i) = root } }
             r == BidirectionalDijkstra(g, root[i], target, ignoreNodes, ignored)
             B1 == IF r.found
                   THEN PathBufferPush(B, root_length + r.dist,
                                       SubSeq(root, 1, i - 1) \o r.path)
                   ELSE B
         IN YenSpursThroughRoot(g, target, prev, listA, B1, ignoreNodes, ignored, i + 1)

RECURSIVE YenSpurs(_, _, _, _, _, _, _, _)
\* The deviations from the path prev just yielded: for each root prev[:i], a
\* least-weight spur from its last node to the target that avoids the nodes
\* of the root and the edges by which paths already yielded leave the root.
YenSpurs(g, target, prev, listA, B, ignoreNodes, ignoreEdges, i) ==
    IF i >= Len(prev) THEN B
    ELSE LET root == SubSeq(prev, 1, i)
             root_length == length_func(g, root)
             ignored == ignoreEdges \cup
                        { <<listA[j][i], listA[j][i + 1]>> :
                            j \in { n \in 1..Len(listA) :
                                    /\ Len(listA[n]) > i
                                    /\ SubSeq(listA[n], 1, i) = root } }
             r == BidirectionalDijkstra(g, root[i], target, ignoreNodes, ignored)
             B1 == IF r.found
                   THEN PathBufferPush(B, root_length + r.dist,
                                       SubSeq(root, 1, i - 1) \o r.path)
                   ELSE B
         IN YenSpurs(g, target, prev, listA, B1, ignoreNodes \cup {root[i]}, ignored, i + 1)

NoPathFound == "NetworkXNoPath"

\* What next() raises on a generator that has come to its end.
StopIteration == "StopIteration"

\* What a call of a generator function returns: the generator object.
ReturnedGenerator == [kind |-> "generator", path |-> <<>>, items |-> <<>>]

\* The generator has ended: by its return (StopIteration) or by the
\* exception e that escaped from it.
Ended(g, e) == [gen |-> [g EXCEPT !.state = "finished"], result |-> Raised(e)]

\* `yield path` of nx.shortest_simple_paths: the path popped from the
\* buffer is handed to the caller and the generator is suspended; it is in
\* listA when the generator runs again.
YieldPath(g, B, top) ==
    [gen |-> [g EXCEPT !.state = "suspended",
                       !.listA = Append(@, top[3]),
                       !.B = [B EXCEPT !.heap = @ \ {top}]],
     result |-> Returned(Path(top[3]))]

\* The end of a turn of the while loop: the lightest path of the buffer is
\* yielded, and the loop breaks when the buffer is empty.
PopOrBreak(g, B) ==
    IF B.heap = {} THEN Ended(g, StopIteration)
    ELSE YieldPath(g, B, HeapMin(B.heap))

\* The first turn of the while loop: the shortest path is sought and pushed;
\* NetworkXNoPath escapes when there is none.
FirstTurn(g, first) ==
    IF ~first.found THEN Ended(g, NoPathFound)
    ELSE PopOrBreak(g, PathBufferPush(g.B, first.dist, first.path))

\* One resumption of `yield from itertools.islice(paths_gen, 0, k)`: islice
\* ends once k paths are out, without asking paths_gen for more; else one
\* turn of the while loop of nx.shortest_simple_paths runs up to its yield.
\* A turn after the first pushes the deviations of the path yielded last.
Yield(g) ==
    IF Len(g.listA) >= g.k THEN Ended(g, StopIteration)
    ELSE IF g.listA = <<>>
         THEN FirstTurn(g, BidirectionalDijkstra(g.digraph, g.orig, g.dest, {}, {}))
         ELSE PopOrBreak(g, YenSpurs(g.digraph, g.dest, g.listA[Len(g.listA)],
                                     g.listA, g.B, {}, {}, 1))

\* next() on the generator g while the graph is graph.  The body of
\* k_shortest_paths starts to run at the first next(): the verification and
\* convert.to_digraph see the graph as it is then, and the digraph is a
\* copy that later writes to the graph do not reach.  next() on a
\* generator that has ended raises StopIteration.
Resume(g, graph) ==
    IF g.state = "finished" THEN Ended(g, StopIteration)
    ELSE IF g.state = "suspended" THEN Yield(g)
    ELSE IF VerifyRaises(graph) THEN Ended(g, _verify_edge_attribute(graph))
    ELSE Yield([g EXCEPT !.digraph = to_digraph(graph), !.B = EmptyBuffer])

\* k_shortest_paths(G, orig, dest, k): a generator function, so the call
\* runs nothing of its body and returns the generator.
KShortestPaths(o, d, k) ==
    /\ op = "idle"
    /\ op' = "k_shortest_paths"
    /\ args' = [orig |-> o, dest |-> d, k |-> k]
    /\ result' = ReturnedGenerator
    /\ gen' = [NoGenerator EXCEPT !.state = "created", !.orig = o, !.dest = d, !.k = k]
    /\ UNCHANGED <<G, pool>>

\* next(gen): the caller resumes the generator, which runs up to its next
\* yield or to its end.  The caller does so between its other calls, not
\* while a call of its own is waiting for the pool.
GeneratorNext ==
    /\ op \in {"idle", "k_shortest_paths", "next", "write"}
    /\ gen.state # "none"
    /\ op' = "next"
    /\ \E r \in {Resume(gen, G)} :
         /\ gen' = r.gen
         /\ result' = r.result
    /\ UNCHANGED <<G, args, pool>>

MaxK == 3

MaxKEdges == 5

\* The origin-destination pairs the k shortest paths are asked for.
KPairs == { <<1, 4>>, <<4, 4>> }

\* They are asked on the graphs over every edge pair but 1 -> 3, so that
\* 1 -> 4, 1 -> 2 -> 4 and 1 -> 2 -> 3 -> 4 are the simple paths from 1 to 4
\* and 2 -> 3 -> 2 is a cycle.
InitK ==
    /\ IsGraphOver(G, AllPairs \ {2}, MaxKEdges)
    /\ op = "idle"
    /\ args = [orig |-> 0, dest |-> 0, k |-> 0]
    /\ result = Pending
    /\ pool = NoPool
    /\ gen = NoGenerator

NextK ==
    \/ \E od \in KPairs, k \in 0..MaxK : KShortestPaths(od[1], od[2], k)
    \/ GeneratorNext

SpecK == InitK /\ [][NextK]_vars

(***************************************************************************)
(* Reference notions the claims are stated with.                           *)
(***************************************************************************)
\* p follows existing directed edges of g.
IsWalk(g, p) ==
    \A i \in 1..(Len(p) - 1) : \E j \in 1..Len(g) : g[j].u = p[i] /\ g[j].v = p[i + 1]

\* The weight of the cheapest parallel edge from u to v.
CheapestHop(g, u, v) ==
    CHOOSE w \in { g[i].length : i \in { j \in 1..Len(g) : g[j].u = u /\ g[j].v = v } } :
        \A i \in 1..Len(g) : (g[i].u = u /\ g[i].v = v) => w <= g[i].length

RECURSIVE SumWeights(_, _)
\* The total weight of a walk, each hop weighted by its cheapest parallel edge.
SumWeights(g, p) ==
    IF Len(p) <= 1 THEN 0
    ELSE CheapestHop(g, p[1], p[2]) + SumWeights(g, Tail(p))

RECURSIVE WalksFrom(_, _, _)
\* The walks of g that start at o and have at most n nodes.
WalksFrom(g, o, n) ==
    IF n = 1 THEN {<<o>>}
    ELSE LET shorter == WalksFrom(g, o, n - 1)
         IN shorter \cup
            { Append(p, g[i].v) :
                <<p, i>> \in { <<q, j>> \in shorter \X (1..Len(g)) :
                                 Len(q) = n - 1 /\ g[j].u = q[Len(q)] } }

\* Every walk from o to d with at most one node more than the graph has:
\* all simple paths, and the walks that repeat a node once.
WalksBetween(g, o, d) ==
    { p \in WalksFrom(g, o, Cardinality(Nodes) + 1) : p[Len(p)] = d }

IsSimple(p) == \A i, j \in 1..Len(p) : i # j => p[i] # p[j]

SimplePaths(g, o, d) == { p \in WalksBetween(g, o, d) : IsSimple(p) }

Reachable(g, o, d) == WalksBetween(g, o, d) # {}

\* p is a least-weight walk from o to d.
IsShortest(g, o, d, p) ==
    /\ p # <<>>
    /\ p[1] = o
    /\ p[Len(p)] = d
    /\ IsWalk(g, p)
    /\ \A q \in WalksBetween(g, o, d) : SumWeights(g, p) <= SumWeights(g, q)

(***************************************************************************)
(* C1: when shortest_path on two node IDs returns a path, the path starts  *)
(* at orig, ends at dest, follows directed edges of the graph, and no walk *)
(* from orig to dest has a smaller total weight (each hop weighted by its  *)
(* cheapest parallel edge).                                                *)
(***************************************************************************)
C1_SinglePathIsShortest ==
    (op = "shortest_path" /\ result.kind = "path")
        => IsShortest(G, args.orig.nodes[1], args.dest.nodes[1], result.path)

\* A returned path of three nodes that beats a direct edge of greater weight.
C1_Witness ==
    /\ op = "shortest_path"
    /\ result.kind = "path"
    /\ Len(result.path) = 3
    /\ IsWalk(G, <<args.orig.nodes[1], args.dest.nodes[1]>>)
    /\ SumWeights(G, result.path) < CheapestHop(G, args.orig.nodes[1], args.dest.nodes[1])

(***************************************************************************)
(* The batch claims are about calls whose graph passes the edge-attribute  *)
(* check that shortest_path runs first (line 183): a graph without any     *)
(* edge, or with a non-numeric weight, makes that check raise.             *)
(***************************************************************************)
IsBatchCall ==
    /\ ~args.orig.scalar
    /\ ~args.dest.scalar
    /\ Len(args.orig.nodes) = Len(args.dest.nodes)

(***************************************************************************)
(* C2: a batch shortest_path over origin and destination lists of equal    *)
(* length returns a list with one result per pair, in input order:         *)
(* position i holds a path from orig[i] to dest[i] when dest[i] can be     *)
(* reached from orig[i], and None when it cannot; an unreachable pair      *)
(* neither aborts the batch nor changes another pair's result.             *)
(***************************************************************************)
C2_BatchOneResultPerPair ==
    (op = "shortest_path" /\ IsBatchCall /\ ~VerifyRaises(G))
        => /\ result.kind = "list"
           /\ Len(result.items) = Len(args.orig.nodes)
           /\ \A i \in 1..Len(args.orig.nodes) :
                LET o == args.orig.nodes[i]
                    d == args.dest.nodes[i]
                    r == result.items[i]
                IN IF Reachable(G, o, d)
                   THEN /\ r.kind = "path"
                        /\ r.path[1] = o
                        /\ r.path[Len(r.path)] = d
                        /\ IsWalk(G, r.path)
                   ELSE r = None

\* Three pairs of which the second has no path: [path, None, path].
C2_Witness ==
    /\ op = "shortest_path"
    /\ result.kind = "list"
    /\ Len(result.items) = 3
    /\ result.items[1].kind = "path"
    /\ result.items[2] = None
    /\ result.items[3].kind = "path"

(***************************************************************************)
(* C3: a batch solved on a pool of more than one worker, whatever the      *)
(* order in which the workers finish, returns the list that the            *)
(* sequential branch (cpus = 1) returns for the same graph and pairs.      *)
(***************************************************************************)
C3_ParallelEqualsSequential ==
    (op = "shortest_path" /\ result.kind = "list"
        /\ EffectiveCpus(args.cpus, args.ncpu) > 1)
        => result.items = SolveSequentially(G, args.orig.nodes, args.dest.nodes)

\* A pool whose second chunk came back before its first, with different
\* results for the two pairs.
C3_Witness ==
    /\ op = "shortest_path"
    /\ result.kind = "list"
    /\ Len(pool.finished) >= 2
    /\ pool.finished[1] = 2
    /\ result.items[1] # result.items[2]

(***************************************************************************)
(* C4: a call with lists of different lengths raises the ValueError of     *)
(* line 200 (MismatchedLengths) and a call with one node ID and one list   *)
(* raises the TypeError of line 192 (MixedCardinality); either is raised   *)
(* at once: no pair is solved and no worker pool is started.               *)
(***************************************************************************)
C4_ShapeErrorsBeforeSolving ==
    (op # "idle" /\ ~VerifyRaises(G))
        => /\ (args.orig.scalar # args.dest.scalar)
                => /\ op = "shortest_path"
                   /\ result = Raised(MixedCardinality)
                   /\ pool = NoPool
           /\ (~args.orig.scalar /\ ~args.dest.scalar
                 /\ Len(args.orig.nodes) # Len(args.dest.nodes))
                => /\ op = "shortest_path"
                   /\ result = Raised(MismatchedLengths)
                   /\ pool = NoPool

\* Three origins and two destinations, asked to be solved on two cores.
C4_Witness ==
    /\ op = "shortest_path"
    /\ ~args.orig.scalar
    /\ ~args.dest.scalar
    /\ Len(args.orig.nodes) = 3
    /\ Len(args.dest.nodes) = 2
    /\ EffectiveCpus(args.cpus, args.ncpu) = 2
    /\ result = Raised(MismatchedLengths)

(***************************************************************************)
(* C5: the paths k_shortest_paths yields have non-decreasing total weight, *)
(* and their number is the lesser of k and the number of simple paths from *)
(* orig to dest: none for k = 0, and all of them, then the end, when fewer *)
(* than k exist.  The generator never yields more than that number, and it *)
(* ends by its return, having yielded exactly that number.                 *)
(***************************************************************************)
C5_YieldsMinOfKAndPathCount ==
    (gen.state # "none" /\ ~VerifyRaises(G))
        => LET n == Cardinality(SimplePaths(G, gen.orig, gen.dest))
               least == IF gen.k < n THEN gen.k ELSE n
           IN /\ Len(gen.listA) <= least
              /\ \A i \in 1..(Len(gen.listA) - 1) :
                   SumWeights(G, gen.listA[i]) <= SumWeights(G, gen.listA[i + 1])
              /\ gen.state = "finished"
                    => /\ result = Raised(StopIteration)
                       /\ Len(gen.listA) = least

\* What the code does where C5 fails: with no path from orig to dest and
\* k >= 1, the first next() lets NetworkXNoPath escape; in every other case
\* the generator ends by its return with the lesser of k and the number of
\* simple paths yielded.
C5_RaisesWhenNoPathExists ==
    [][(gen.state # "none" /\ gen'.state # "none" /\ ~VerifyRaises(G))
         => LET n == Cardinality(SimplePaths(G, gen.orig, gen.dest))
                least == IF gen.k < n THEN gen.k ELSE n
            IN IF gen.state = "created" /\ gen.k >= 1 /\ n = 0
               THEN gen'.state = "finished" /\ result' = Raised(NoPathFound)
               ELSE /\ Len(gen'.listA) <= least
                    /\ (gen.state # "finished" /\ gen'.state = "finished")
                          => /\ result' = Raised(StopIteration)
                             /\ Len(gen'.listA) = least]_vars

(***************************************************************************)
(* C6: every path k_shortest_paths yields is a simple path from orig to    *)
(* dest along edges of the graph, no path is yielded twice, and the paths  *)
(* yielded are the first k simple paths when ranked by the sum, over their *)
(* hops, of the least weight among the parallel edges of the hop: at every *)
(* suspension no simple path not yet yielded is lighter than one yielded,  *)
(* and at the end the lesser of k and their number has been yielded.       *)
(***************************************************************************)
C6_FirstKSimplePathsByMinWeight ==
    (gen.state # "none" /\ ~VerifyRaises(G))
        => \E all \in {SimplePaths(G, gen.orig, gen.dest)} :
           LET yielded == { gen.listA[i] : i \in 1..Len(gen.listA) }
           IN /\ yielded \subseteq all
              /\ Cardinality(yielded) = Len(gen.listA)
              /\ gen.state = "finished"
                    => Len(gen.listA) = IF gen.k < Cardinality(all)
                                        THEN gen.k ELSE Cardinality(all)
              /\ \A i \in 1..(Len(gen.listA) - 1) :
                   SumWeights(G, gen.listA[i]) <= SumWeights(G, gen.listA[i + 1])
              /\ \A q \in yielded, r \in all \ yielded :
                   SumWeights(G, q) <= SumWeights(G, r)

\* One path asked for where two exist: the generator has yielded it and has
\* then ended; the path takes a hop whose cheaper parallel edge is not the
\* first, and is the lighter path only because that cheaper edge is the
\* one that counts.
C6_Witness ==
    /\ op = "next"
    /\ gen.state = "finished"
    /\ result = Raised(StopIteration)
    /\ gen.k = 1
    /\ Len(gen.listA) = 1
    /\ Cardinality(SimplePaths(G, gen.orig, gen.dest)) = 2
    /\ \E q \in SimplePaths(G, gen.orig, gen.dest) :
         SumWeights(G, gen.listA[1]) < SumWeights(G, q)
    /\ \E i \in 1..Len(G), j \in 1..Len(G) :
         /\ i < j
         /\ G[i].u = G[j].u
         /\ G[i].v = G[j].v
         /\ G[j].length < G[i].length
         /\ IsWalk(<<G[i]>>, SubSeq(gen.listA[1], 1, 2))
         /\ \E q \in SimplePaths(G, gen.orig, gen.dest) :
              SumWeights(G, q) < G[i].length

(***************************************************************************)
(* route_to_gdf: the projection of a node path onto concrete edges.        *)
(***************************************************************************)
\* G[u][v] of a pair that no edge connects raises KeyError.
DisconnectedPair == "KeyError: no edge from u to v"

ReturnedFrame(rows) == [kind |-> "frame", path |-> <<>>, items |-> rows]

\* zip(route[:-1], route[1:]): the consecutive pairs of the route.
RoutePairs(route) == [i \in 1..(Len(route) - 1) |-> <<route[i], route[i + 1]>>]

\* G.subgraph(route): the edges whose two endpoints are nodes of the route.
Subgraph(g, route) ==
    LET nodes == { route[i] : i \in 1..Len(route) }
    IN SelectSeq(g, LAMBDA e : e.u \in nodes /\ e.v \in nodes)

\* convert.graph_to_gdfs raises ValueError on a graph that has no edges.
GraphContainsNoEdges == "ValueError: Graph contains no edges."

\* convert.graph_to_gdfs(G, nodes=False): the ValueError when G has no
\* edges, else one row per edge, indexed by (u, v, key); the key of an edge
\* is its rank among its parallel edges, counted from 0.
graph_to_gdfs(g) ==
    [raised |-> g = <<>>,
     rows |-> [i \in 1..Len(g) |->
                 [u |-> g[i].u, v |-> g[i].v,
                  key |-> Cardinality({ j \in 1..i : g[j].u = g[i].u /\ g[j].v = g[i].v }) - 1,
                  length |-> g[i].length]]]

\* min(G[u][v].items(), key=lambda i: i[1][weight])[0]: the position among
\* the parallel edges es of the first edge of least weight (key + 1).
MinItem(es) ==
    CHOOSE k \in 1..Len(es) :
        /\ \A j \in 1..Len(es) : es[k].length <= es[j].length
        /\ \A j \in 1..(k - 1) : es[j].length > es[k].length

\* The generator uvk, consumed to its end: the triples (u, v, key), or the
\* KeyError of the first pair without an edge.
Uvk(g, route) ==
    LET pairs == RoutePairs(route)
    IN IF \E i \in 1..Len(pairs) : EdgeData(g, pairs[i][1], pairs[i][2]) = <<>>
       THEN [raised |-> TRUE, keys |-> <<>>]
       ELSE [raised |-> FALSE,
             keys |-> [i \in 1..Len(pairs) |->
                          <<pairs[i][1], pairs[i][2],
                            MinItem(EdgeData(g, pairs[i][1], pairs[i][2])) - 1>>]]

\* frame.loc[keys]: the rows of the frame under the keys, in the order of
\* the keys.
Loc(frame, keys) ==
    [i \in 1..Len(keys) |->
        frame[CHOOSE r \in 1..Len(frame) :
                  <<frame[r].u, frame[r].v, frame[r].key>> = keys[i]]]

\* route_to_gdf(G, route, weight="length"): the frame of the subgraph is
\* made first; the generator uvk is consumed by .loc, after it.
route_to_gdf(g, route) ==
    LET frame == graph_to_gdfs(Subgraph(g, route))
        uvk == Uvk(g, route)
    IN IF frame.raised THEN Raised(GraphContainsNoEdges)
       ELSE IF uvk.raised THEN Raised(DisconnectedPair)
       ELSE ReturnedFrame(Loc(frame.rows, uvk.keys))

RouteToGdf(route) ==
    /\ op = "idle"
    /\ op' = "route_to_gdf"
    /\ args' = [route |-> route]
    /\ result' = route_to_gdf(G, route)
    /\ UNCHANGED <<G, pool, gen>>

MaxRoute == 3

MaxRouteEdges == 4

\* Routes are projected on the graphs of one to MaxRouteEdges edges over
\* 1 -> 2, 2 -> 3 and 3 -> 2; node 4 is isolated.
InitRoute ==
    /\ IsGraphOver(G, {1, 4, 5}, MaxRouteEdges)
    /\ G # <<>>
    /\ op = "idle"
    /\ args = [route |-> <<>>]
    /\ result = Pending
    /\ pool = NoPool
    /\ gen = NoGenerator

\* The routes of two nodes or more, and those of one node and of none.
NextRoute ==
    \/ \E route \in { r \in SeqsUpTo(Nodes, MaxRoute) : Len(r) >= 2 } : RouteToGdf(route)
    \/ \E route \in { r \in SeqsUpTo(Nodes, MaxRoute) : Len(r) < 2 } : RouteToGdf(route)

SpecRoute == InitRoute /\ [][NextRoute]_vars

\* The edge of g that the row stands for: same endpoints, same weight, and
\* as many parallel edges before it as the key of the row says.
IsEdgeRow(g, row) ==
    \E j \in 1..Len(g) :
        /\ g[j].u = row.u
        /\ g[j].v = row.v
        /\ g[j].length = row.length
        /\ Cardinality({ i \in 1..(j - 1) : g[i].u = row.u /\ g[i].v = row.v }) = row.key

\* Every consecutive pair of the route has an edge of g.
HopsConnected(g, route) ==
    \A i \in 1..(Len(route) - 1) :
        \E j \in 1..Len(g) : g[j].u = route[i] /\ g[j].v = route[i + 1]

\* rows holds one edge of g per consecutive pair of the route, in route
\* order, each of least weight among the parallel edges of its pair.
IsProjection(g, route, rows) ==
    /\ DOMAIN rows = 1..(Len(route) - 1)
    /\ \A i \in 1..(Len(route) - 1) :
         /\ rows[i].u = route[i]
         /\ rows[i].v = route[i + 1]
         /\ IsEdgeRow(g, rows[i])
         /\ \A j \in 1..Len(g) :
              (g[j].u = route[i] /\ g[j].v = route[i + 1]) => rows[i].length <= g[j].length

\* C7: route_to_gdf returns one concrete edge per consecutive pair of the
\* route, in route order, each of least weight among the parallel edges of
\* its pair; when some consecutive pair has no edge it raises the KeyError
\* (DisconnectedPair) and returns nothing.
C7_OneLightestEdgePerPair ==
    op = "route_to_gdf" =>
        IF HopsConnected(G, args.route)
        THEN result.kind = "frame" /\ IsProjection(G, args.route, result.items)
        ELSE result = Raised(DisconnectedPair)

\* No edge of g has both its ends among the nodes of the route.
NoEdgeAmong(g, route) ==
    \A j \in 1..Len(g) :
        \/ \A i \in 1..Len(route) : route[i] # g[j].u
        \/ \A i \in 1..Len(route) : route[i] # g[j].v

\* What the code does: when no edge joins two nodes of the route, which is
\* so of every route of fewer than two nodes on a graph without self-loops,
\* the ValueError of convert.graph_to_gdfs is raised, whether or not the
\* pairs of the route are connected; on every other route C7 holds.
C7_NoEdgesErrorComesFirst ==
    op = "route_to_gdf" =>
        IF NoEdgeAmong(G, args.route) THEN result = Raised(GraphContainsNoEdges)
        ELSE IF HopsConnected(G, args.route)
        THEN result.kind = "frame" /\ IsProjection(G, args.route, result.items)
        ELSE result = Raised(DisconnectedPair)

(***************************************************************************)
(* Speeds: numbers and strings.                                            *)
(*                                                                         *)
(* A string is a sequence of characters.  A float is a binary double, and  *)
(* its arithmetic is done on natural numbers of any size.                  *)
(*                                                                         *)
(* A natural number of any size is a sequence of limbs in base 2^15, the   *)
(* least significant first and the most significant one not zero; zero is  *)
(* the empty sequence.  The products of two limbs stay below 2^30.         *)
(***************************************************************************)
LimbBits == 15

Base == 2^LimbBits

\* Limb i of a, zero above the top one.
Limb(a, i) == IF i <= Len(a) THEN a[i] ELSE 0

\* a without the zero limbs at its top.
BigTrim(a) ==
    IF a = <<>> \/ a[Len(a)] # 0 THEN a
    ELSE IF \A i \in 1..Len(a) : a[i] = 0 THEN <<>>
    ELSE SubSeq(a, 1, CHOOSE i \in 1..Len(a) : a[i] # 0 /\ \A j \in (i + 1)..Len(a) : a[j] = 0)

RECURSIVE BigOfNat(_)
BigOfNat(n) == IF n = 0 THEN <<>> ELSE <<n % Base>> \o BigOfNat(n \div Base)

\* a and b, of one length, differ and limb i is the top one where they do.
BigCmpAt(a, b, i) == IF a[i] < b[i] THEN -1 ELSE 1

\* -1, 0 or 1 as a is below, equal to or above b.
BigCmp(a, b) ==
    IF Len(a) < Len(b) THEN -1
    ELSE IF Len(a) > Len(b) THEN 1
    ELSE IF a = b THEN 0
    ELSE BigCmpAt(a, b, CHOOSE i \in 1..Len(a) :
                            a[i] # b[i] /\ \A j \in (i + 1)..Len(a) : a[j] = b[j])

RECURSIVE BigAddFrom(_, _, _, _)
\* The limbs of a + b from limb i on; s is the sum at limb i, carry included.
BigAddFrom(a, b, i, s) ==
    IF i > Len(a) /\ i > Len(b) THEN (IF s = 0 THEN <<>> ELSE <<s>>)
    ELSE <<s % Base>> \o BigAddFrom(a, b, i + 1, Limb(a, i + 1) + Limb(b, i + 1) + s \div Base)

BigAdd(a, b) == BigAddFrom(a, b, 1, Limb(a, 1) + Limb(b, 1))

RECURSIVE BigSubFrom(_, _, _, _)
\* The limbs of a - b from limb i on; d is the difference at limb i, borrow
\* included.
BigSubFrom(a, b, i, d) ==
    IF i > Len(a) THEN <<>>
    ELSE <<(d + Base) % Base>>
         \o BigSubFrom(a, b, i + 1,
                       Limb(a, i + 1) - Limb(b, i + 1) - (IF d < 0 THEN 1 ELSE 0))

\* a - b, for a >= b.
BigSub(a, b) == BigTrim(BigSubFrom(a, b, 1, Limb(a, 1) - Limb(b, 1)))

RECURSIVE BigMulFrom(_, _, _, _)
\* The limbs of a * k from limb i on; p is the product at limb i, carry
\* included.
BigMulFrom(a, k, i, p) ==
    IF i > Len(a) THEN (IF p = 0 THEN <<>> ELSE <<p>>)
    ELSE <<p % Base>> \o BigMulFrom(a, k, i + 1, Limb(a, i + 1) * k + p \div Base)

\* a * k, for 0 <= k <= Base.
BigMulSmall(a, k) == IF k = 0 \/ a = <<>> THEN <<>> ELSE BigMulFrom(a, k, 1, a[1] * k)

\* a * Base^n.
BigShiftLimbs(a, n) == IF a = <<>> THEN <<>> ELSE [i \in 1..n |-> 0] \o a

RECURSIVE BigMulAt(_, _, _, _)
\* a * b, when p is a times the limbs of b above limb j.
BigMulAt(a, b, j, p) ==
    IF j = 0 THEN p
    ELSE IF p = <<>> THEN BigMulAt(a, b, j - 1, BigMulSmall(a, b[j]))
    ELSE BigMulAt(a, b, j - 1, BigAdd(BigMulSmall(a, b[j]), BigShiftLimbs(p, 1)))

BigMul(a, b) == BigMulAt(a, b, Len(b), <<>>)

\* 2^n, for n <= LimbBits.
Pow2(n) == 2^n

\* a * 2^n.
BigShl(a, n) == BigShiftLimbs(BigMulSmall(a, Pow2(n % LimbBits)), n \div LimbBits)

\* The quotient so far with one more limb under it.
DivPut(rest, d) == [q |-> rest.q \o <<d>>, r |-> rest.r]

RECURSIVE BigDivSmallAt(_, _, _, _)
\* The limbs i..1 of a \div k and a % k; r is the remainder that the limbs
\* above i left.
BigDivSmallAt(a, k, i, r) ==
    IF i = 0 THEN [q |-> <<>>, r |-> r]
    ELSE DivPut(BigDivSmallAt(a, k, i - 1, (r * Base + a[i]) % k), (r * Base + a[i]) \div k)

DivTrim(res) == [q |-> BigTrim(res.q), r |-> res.r]

\* a \div k and a % k, for 0 < k <= Base.
BigDivModSmall(a, k) == DivTrim(BigDivSmallAt(a, k, Len(a), 0))

BigDivSmall(a, k) == BigDivModSmall(a, k).q

\* a \div 2^n.
BigShr(a, n) == BigDivSmall(SubSeq(a, n \div LimbBits + 1, Len(a)), Pow2(n % LimbBits))

\* The number of binary digits of a limb.
Bits(x) == IF x = 0 THEN 0 ELSE CHOOSE k \in 1..LimbBits : 2^(k - 1) <= x /\ x < 2^k

\* The number of binary digits of a.
BitLen(a) == IF a = <<>> THEN 0 ELSE LimbBits * (Len(a) - 1) + Bits(a[Len(a)])

IsOdd(a) == a # <<>> /\ a[1] % 2 = 1

RECURSIVE QuotientDigit(_, _, _)
\* The largest q' <= q with b * q' <= rem.
QuotientDigit(rem, b, q) ==
    IF BigCmp(BigMulSmall(b, q), rem) > 0 THEN QuotientDigit(rem, b, q - 1) ELSE q

\* The digit that the two top limbs of rem over the top limb of b give: at
\* most two above the true one when the top limb of b is at least Base / 2.
EstimateDigit(rem, b) ==
    IF (Limb(rem, Len(b) + 1) * Base + Limb(rem, Len(b))) \div b[Len(b)] < Base
    THEN (Limb(rem, Len(b) + 1) * Base + Limb(rem, Len(b))) \div b[Len(b)]
    ELSE Base - 1

RECURSIVE BigDivModAt(_, _, _, _, _)
RECURSIVE BigDivModDigit(_, _, _, _, _)

\* Long division: q holds the limbs of a \div b above limb i and rem is
\* what the limbs of a above i left.
BigDivModAt(a, b, i, rem, q) ==
    IF i = 0 THEN [q |-> BigTrim(q), r |-> rem]
    ELSE BigDivModDigit(a, b, i, BigTrim(<<a[i]>> \o rem), q)

BigDivModTake(a, b, i, cur, q, d) ==
    BigDivModAt(a, b, i - 1, BigSub(cur, BigMulSmall(b, d)), <<d>> \o q)

BigDivModDigit(a, b, i, cur, q) ==
    IF BigCmp(cur, b) < 0 THEN BigDivModAt(a, b, i - 1, cur, <<0>> \o q)
    ELSE BigDivModTake(a, b, i, cur, q, QuotientDigit(cur, b, EstimateDigit(cur, b)))

DivFinish(res, s) == [q |-> res.q, r |-> BigShr(res.r, s)]

\* The limbs of a above the top Len(a) - Len(b) + 1 are below b.
BigDivModBy(a, b, s) ==
    IF Len(a) < Len(b) THEN [q |-> <<>>, r |-> BigShr(a, s)]
    ELSE DivFinish(BigDivModAt(a, b, Len(a) - Len(b) + 1,
                               SubSeq(a, Len(a) - Len(b) + 2, Len(a)), <<>>), s)

\* The remainder of a division of a / Base by b / Base is that of a by b
\* over Base.
DivTimesBase(res) == [q |-> res.q, r |-> BigShiftLimbs(res.r, 1)]

\* The remainder of a division by one limb, as a number of any size.
DivBySmall(res) == [q |-> res.q, r |-> BigOfNat(res.r)]

RECURSIVE BigDivMod(_, _)
\* a \div b and a % b, for b > 0.  A one-limb b divides directly and zero
\* limbs at the bottom of both cancel; otherwise both are shifted until the
\* top limb of b is at least Base / 2, which leaves the quotient as it is.
BigDivMod(a, b) ==
    IF Len(b) = 1 THEN DivBySmall(BigDivModSmall(a, b[1]))
    ELSE IF a # <<>> /\ a[1] = 0 /\ b[1] = 0 THEN DivTimesBase(BigDivMod(Tail(a), Tail(b)))
    ELSE BigDivModBy(BigShl(a, LimbBits - Bits(b[Len(b)])),
                     BigShl(b, LimbBits - Bits(b[Len(b)])), LimbBits - Bits(b[Len(b)]))

(***************************************************************************)
(* A float is a double of IEEE 754: the record of a mantissa m of 53 bits  *)
(* (2^52 <= m < 2^53) and an exponent e, worth m * 2^e; zero has the empty *)
(* mantissa.  Every operation rounds its exact result to the nearest       *)
(* double, a tie to the one with the even mantissa, as the hardware does.  *)
(* The speeds, lengths and times of the program stay far from the          *)
(* subnormal numbers and from overflow, which are not modelled.            *)
(***************************************************************************)
MantissaBits == 53

Double(m, e) == [kind |-> "float", m |-> m, e |-> e]

Zero == Double(<<>>, 0)

NaN == [kind |-> "nan", m |-> <<>>, e |-> 0]

IsNaN(x) == x.kind # "float"

IsZero(x) == x.kind = "float" /\ x.m = <<>>

\* A mantissa that rounding up made 2^53 is 2^52 again, one exponent higher.
Carry(m, e) == IF BitLen(m) > MantissaBits THEN Double(BigShr(m, 1), e + 1) ELSE Double(m, e)

\* t holds the 53 bits of the mantissa and the bit after them; lost tells
\* that more bits, not all zero, follow.
RoundHalfEven(t, e, lost) ==
    IF IsOdd(t) /\ (lost \/ IsOdd(BigShr(t, 1)))
    THEN Carry(BigAdd(BigShr(t, 1), <<1>>), e)
    ELSE Double(BigShr(t, 1), e)

RoundLong(n, e, len, t, inexact) ==
    RoundHalfEven(t, e + len - MantissaBits, inexact \/ BigShl(t, len - MantissaBits - 1) # n)

\* The double nearest to n * 2^e, or to a number just above it when
\* inexact (n then has more than 54 bits).
RoundBits(n, e, len, inexact) ==
    IF len <= MantissaBits
    THEN Double(BigShl(n, MantissaBits - len), e - (MantissaBits - len))
    ELSE RoundLong(n, e, len, BigShr(n, len - MantissaBits - 1), inexact)

RoundToDouble(n, e, inexact) == IF n = <<>> THEN Zero ELSE RoundBits(n, e, BitLen(n), inexact)

\* float(n) of a natural number.
FloatOfNat(n) == RoundToDouble(BigOfNat(n), 0, FALSE)

FloatAdd(x, y) ==
    IF IsZero(x) THEN y
    ELSE IF IsZero(y) THEN x
    ELSE IF x.e >= y.e
    THEN (IF x.e - y.e > MantissaBits + 1 THEN x
          ELSE RoundToDouble(BigAdd(BigShl(x.m, x.e - y.e), y.m), y.e, FALSE))
    ELSE (IF y.e - x.e > MantissaBits + 1 THEN y
          ELSE RoundToDouble(BigAdd(BigShl(y.m, y.e - x.e), x.m), x.e, FALSE))

FloatMul(x, y) == RoundToDouble(BigMul(x.m, y.m), x.e + y.e, FALSE)

QuotientToDouble(res, e) == RoundToDouble(res.q, e, res.r # <<>>)

\* x / y, for y not zero: the quotient of the mantissas is taken to 56 bits
\* or more, and the remainder tells whether it is exact.
FloatDiv(x, y) ==
    IF IsZero(x) THEN Zero
    ELSE QuotientToDouble(BigDivMod(BigShl(x.m, MantissaBits + 3), y.m),
                          x.e - y.e - (MantissaBits + 3))

\* The double nearest to the fraction n / d, for n >= 0 and d > 0.
Float(n, d) == IF d = 1 THEN FloatOfNat(n) ELSE FloatDiv(FloatOfNat(n), FloatOfNat(d))

FloatLess(x, y) ==
    IF IsZero(y) THEN FALSE
    ELSE IF IsZero(x) THEN TRUE
    ELSE x.e < y.e \/ (x.e = y.e /\ BigCmp(x.m, y.m) < 0)

RECURSIVE FloatSumFrom(_, _, _)
FloatSumFrom(xs, i, sum) ==
    IF i > Len(xs) THEN sum ELSE FloatSumFrom(xs, i + 1, FloatAdd(sum, xs[i]))

\* The sum from the left, rounded after every addition.
FloatSum(xs) == FloatSumFrom(xs, 1, Zero)

RECURSIVE FloatMax(_)
FloatMax(xs) ==
    IF Len(xs) = 1 THEN xs[1]
    ELSE IF FloatLess(xs[1], xs[2]) THEN FloatMax(Tail(xs))
    ELSE FloatMax(<<xs[1]>> \o SubSeq(xs, 3, Len(xs)))

\* Series.dropna() and the skipna of the pandas reductions.
DropNa(xs) == SelectSeq(xs, LAMBDA x : ~IsNaN(x))

\* agg applied to a list or a Series of floats: np.mean by default, the sum
\* from the left divided by the count; the reductions skip NaN and give NaN
\* when nothing is left.
AggKnown(agg, known) ==
    IF known = <<>> THEN NaN
    ELSE IF agg = "max" THEN FloatMax(known)
    ELSE FloatDiv(FloatSum(known), FloatOfNat(Len(known)))

Agg(agg, xs) == AggKnown(agg, DropNa(xs))

Digits == <<"0", "1", "2", "3", "4", "5", "6", "7", "8", "9">>

DigitValues == [c \in { Digits[i] : i \in 1..10 } |-> (CHOOSE i \in 1..10 : Digits[i] = c) - 1]

IsDigit(c) == c \in DOMAIN DigitValues

DigitValue(c) == DigitValues[c]

\* Decimal digits are taken four at a time: 10^4 is below Base.
Pow10(k) == IF k = 0 THEN 1 ELSE IF k = 1 THEN 10 ELSE IF k = 2 THEN 100
            ELSE IF k = 3 THEN 1000 ELSE 10000

RECURSIVE BigPow10(_)
BigPow10(k) == IF k <= 4 THEN <<Pow10(k)>> ELSE BigMulSmall(BigPow10(k - 4), Pow10(4))

\* The number that at most four digits write.
FewDigitsValue(cs) ==
    IF cs = <<>> THEN 0
    ELSE IF Len(cs) = 1 THEN DigitValue(cs[1])
    ELSE IF Len(cs) = 2 THEN 10 * DigitValue(cs[1]) + DigitValue(cs[2])
    ELSE IF Len(cs) = 3
    THEN 100 * DigitValue(cs[1]) + 10 * DigitValue(cs[2]) + DigitValue(cs[3])
    ELSE 1000 * DigitValue(cs[1]) + 100 * DigitValue(cs[2]) + 10 * DigitValue(cs[3])
         + DigitValue(cs[4])

RECURSIVE DigitsValue(_)
\* The number that a sequence of digits writes.
DigitsValue(cs) ==
    IF Len(cs) <= 4 THEN BigOfNat(FewDigitsValue(cs))
    ELSE BigAdd(BigMulSmall(DigitsValue(SubSeq(cs, 1, Len(cs) - 4)), Pow10(4)),
                BigOfNat(FewDigitsValue(SubSeq(cs, Len(cs) - 3, Len(cs)))))

\* The double nearest to n / 10^k: n is shifted until the quotient has 56
\* bits or more.
DecimalToDoubleBy(n, d, s) == QuotientToDouble(BigDivMod(BigShl(n, s), d), -s)

DecimalToDouble(n, d) ==
    IF n = <<>> THEN Zero
    ELSE IF MantissaBits + 3 + BitLen(d) > BitLen(n)
    THEN DecimalToDoubleBy(n, d, MantissaBits + 3 + BitLen(d) - BitLen(n))
    ELSE DecimalToDoubleBy(n, d, 0)

\* str.replace(",", ".").
ReplaceCommas(cs) == [i \in 1..Len(cs) |-> IF cs[i] = "," THEN "." ELSE cs[i]]

\* float(s) for a string of digits and dots that starts with a digit: the
\* double nearest to the number it writes, or "ValueError" when it holds
\* more than one dot.
ParseFloatAt(cs, dots) ==
    IF Cardinality(dots) > 1 THEN [ok |-> FALSE, value |-> NaN]
    ELSE IF dots = {} THEN [ok |-> TRUE, value |-> RoundToDouble(DigitsValue(cs), 0, FALSE)]
    ELSE [ok |-> TRUE,
          value |-> DecimalToDouble(
                        DigitsValue(SelectSeq(cs, IsDigit)),
                        BigPow10(Len(cs) - (CHOOSE i \in dots : TRUE)))]

ParseFloat(cs) == ParseFloatAt(cs, { i \in 1..Len(cs) : cs[i] = "." })

RECURSIVE NatToStr(_)
\* The decimal digits of a natural number.
NatToStr(n) ==
    IF n < 10 THEN <<Digits[n + 1]>>
    ELSE Append(NatToStr(n \div 10), Digits[(n % 10) + 1])

(***************************************************************************)
(* str() of a float writes the shortest digits that read back as the same  *)
(* double, and of those the ones nearest to it.  A decimal reads back as   *)
(* the double x = m * 2^e when it lies between the midpoints of x and its  *)
(* two neighbours; a midpoint itself reads back as x when m is even.  x    *)
(* and the midpoints are scaled by a power of ten that leaves x 18 or 19   *)
(* digits before the point, so that the decimals sought are the whole      *)
(* numbers between the scaled midpoints that end in the most zeros.        *)
(***************************************************************************)
\* The double below a power of two is half as far as the one above.
AtPowerOfTwo(x) == x.m = BigShl(<<1>>, MantissaBits - 1)

\* The number of digits that x has before the point, or one less.
DecimalPlaces(x) == ((x.e + MantissaBits - 1) * 30103) \div 100000 + 1

\* The digits to which a double is scaled before the shortest are
\* sought: one more than the 17 that always tell a double from its
\* neighbours.
ScaledDigits == 18

ShiftedOut(n, q, pow2) == [q |-> q, exact |-> BigShl(q, pow2) = n]

Divided(res) == [q |-> res.q, exact |-> res.r = <<>>]

\* n \div (2^pow2 * 10^pten), and whether the division is exact.
FloorDiv(n, pow2, pten) ==
    IF pten = 0 THEN ShiftedOut(n, BigShr(n, pow2), pow2)
    ELSE Divided(BigDivMod(n, BigShl(BigPow10(pten), pow2)))

\* The digits of a number below 10^4, all four.
FourDigits(n) == <<n \div 1000, (n \div 100) % 10, (n \div 10) % 10, n % 10>>

RECURSIVE DecimalDigits(_)
RECURSIVE DecimalDigitsOf(_)

\* The decimal digits of n, in blocks of four, zeros before them.
DecimalDigits(n) == IF n = <<>> THEN <<>> ELSE DecimalDigitsOf(BigDivModSmall(n, Pow10(4)))

DecimalDigitsOf(res) == DecimalDigits(res.q) \o FourDigits(res.r)

\* ds with zeros before it up to the length len.
PadLeft(ds, len) == [i \in 1..(len - Len(ds)) |-> 0] \o ds

\* The first place where the digits a and b, of one length, differ.
FirstDifference(a, b) ==
    CHOOSE i \in 1..Len(a) : a[i] # b[i] /\ \A t \in 1..(i - 1) : a[t] = b[t]

\* What follows place i of the digits v, with sticky telling that the
\* number has a fraction after its digits, is more than half a unit of
\* place i ("more"), half of it ("half") or less ("less").
Remainder(v, i, sticky) ==
    IF v[i + 1] > 5 THEN "more"
    ELSE IF v[i + 1] < 5 THEN "less"
    ELSE IF sticky \/ \E t \in (i + 2)..Len(v) : v[t] # 0 THEN "more"
    ELSE "half"

\* The digit at place i of the decimal sought: that of v or the next one,
\* whichever gives a number above low and not above high, and the nearer
\* to v when both do, the even one when they are as near.
NearestDigit(low, v, high, i, sticky) ==
    IF v[i] = low[i] THEN v[i] + 1
    ELSE IF v[i] = high[i] THEN v[i]
    ELSE IF Remainder(v, i, sticky) = "more" THEN v[i] + 1
    ELSE IF Remainder(v, i, sticky) = "less" THEN v[i]
    ELSE v[i] + (v[i] % 2)

\* The digits without the zeros before them.
StripZeros(ds) ==
    SubSeq(ds, CHOOSE i \in 1..Len(ds) : ds[i] # 0 /\ \A t \in 1..(i - 1) : ds[t] = 0, Len(ds))

\* The digits of v up to place i, the last one chosen, and the place of
\* the point when the whole numbers are 10^p times the decimals.
DigitsUpTo(low, v, high, i, sticky, p) ==
    [digits |-> StripZeros(SubSeq(v, 1, i - 1) \o <<NearestDigit(low, v, high, i, sticky)>>),
     decpt |-> Len(StripZeros(SubSeq(v, 1, i - 1) \o <<9>>)) + (Len(v) - i) - p]

\* low, v and high have one length; the whole numbers above low and up
\* to high that end in the most zeros are those that differ from low at
\* the first place where high does.
ShortestAmong(low, v, high, sticky, p) ==
    DigitsUpTo(low, v, high, FirstDifference(low, high), sticky, p)

\* high has the most digits of the three.
ShortestPadded(low, v, high, sticky, p) ==
    ShortestAmong(PadLeft(low, Len(high)), PadLeft(v, Len(high)), high, sticky, p)

\* below, value and above are the quotients of the lower midpoint, of x
\* and of the upper midpoint: a whole number reads back as x when it is
\* above low and not above high.
ShortestBetween(below, value, above, even, p) ==
    ShortestPadded(
        DecimalDigits(IF even /\ below.exact THEN BigSub(below.q, <<1>>) ELSE below.q),
        DecimalDigits(value.q),
        DecimalDigits(IF ~even /\ above.exact THEN BigSub(above.q, <<1>>) ELSE above.q),
        ~value.exact, p)

\* x * 10^p is n * t / (2^pow2 * 10^pten); the upper midpoint is up units
\* of t above it and the lower midpoint one unit below.
ShortestScaled(n, t, up, pow2, pten, even, p) ==
    ShortestBetween(FloorDiv(BigSub(n, t), pow2, pten),
                    FloorDiv(n, pow2, pten),
                    FloorDiv(BigAdd(n, BigMulSmall(t, up)), pow2, pten),
                    even, p)

Positive(n) == IF n > 0 THEN n ELSE 0

\* x is m * 2^(h + 1) units of 2^(e - 1 - h), with h = 1 at a power of
\* two and else 0; the unit times 10^p is t / (2^pow2 * 10^pten).
ShortestWith(x, h, t, p) ==
    ShortestScaled(BigMul(BigShl(x.m, h + 1), t), t, h + 1,
                   Positive(h + 1 - x.e), Positive(-p), ~IsOdd(x.m), p)

ShortestAt(x, h, p) ==
    ShortestWith(x, h, BigShl(BigPow10(Positive(p)), Positive(x.e - 1 - h)), p)

\* The shortest digits of a positive double x and the place of the point:
\* x is written 0.d1d2... * 10^decpt.
ShortestDigits(x) ==
    ShortestAt(x, IF AtPowerOfTwo(x) THEN 1 ELSE 0, ScaledDigits - DecimalPlaces(x))

DigitChars(ds) == [i \in 1..Len(ds) |-> Digits[ds[i] + 1]]

Zeros(n) == [i \in 1..n |-> "0"]

\* The digits with the point after the first decpt of them.
PositionalToStr(cs, decpt) ==
    IF decpt <= 0 THEN <<"0", ".">> \o Zeros(-decpt) \o cs
    ELSE IF decpt >= Len(cs) THEN cs \o Zeros(decpt - Len(cs)) \o <<".", "0">>
    ELSE SubSeq(cs, 1, decpt) \o <<".">> \o SubSeq(cs, decpt + 1, Len(cs))

\* The exponent with its sign and two digits or more.
ExponentStr(e) ==
    (IF e < 0 THEN <<"-">> ELSE <<"+">>)
    \o (IF e < 0 THEN (IF -e < 10 THEN <<"0">> ELSE <<>>) \o NatToStr(-e)
        ELSE (IF e < 10 THEN <<"0">> ELSE <<>>) \o NatToStr(e))

\* One digit, the point and the rest if there are more, e and the exponent.
ExponentToStr(cs, decpt) ==
    <<cs[1]>> \o (IF Len(cs) > 1 THEN <<".">> \o SubSeq(cs, 2, Len(cs)) ELSE <<>>)
    \o <<"e">> \o ExponentStr(decpt - 1)

\* repr writes the exponent notation below 1e-4 and from 1e16 on.
ReprToStr(short) ==
    IF short.decpt <= -4 \/ short.decpt > 16
    THEN ExponentToStr(DigitChars(short.digits), short.decpt)
    ELSE PositionalToStr(DigitChars(short.digits), short.decpt)

FloatToStr(x) ==
    IF IsNaN(x) THEN <<"n", "a", "n">>
    ELSE IF IsZero(x) THEN <<"0", ".", "0">>
    ELSE ReprToStr(ShortestDigits(x))

(***************************************************************************)
(* _clean_maxspeed and _collapse_multiple_maxspeed_values.                 *)
(***************************************************************************)
UpperCase ==
    <<"A", "B", "C", "D", "E", "F", "G", "H", "I", "J", "K", "L", "M",
      "N", "O", "P", "Q", "R", "S", "T", "U", "V", "W", "X", "Y", "Z">>

LowerCase ==
    <<"a", "b", "c", "d", "e", "f", "g", "h", "i", "j", "k", "l", "m",
      "n", "o", "p", "q", "r", "s", "t", "u", "v", "w", "x", "y", "z">>

LowerOf == [c \in { UpperCase[k] : k \in 1..26 } |-> LowerCase[CHOOSE k \in 1..26 : UpperCase[k] = c]]

\* str.lower().
Lower(cs) == [i \in 1..Len(cs) |-> IF cs[i] \in DOMAIN LowerOf THEN LowerOf[cs[i]] ELSE cs[i]]

\* sub in cs.
Contains(cs, sub) ==
    \E i \in 1..(Len(cs) - Len(sub) + 1) : SubSeq(cs, i, i + Len(sub) - 1) = sub

RECURSIVE Split(_)
\* re.split(r"\|", cs): the pieces between the bars, at least one.
Split(cs) ==
    IF \A i \in 1..Len(cs) : cs[i] # "|" THEN <<cs>>
    ELSE LET p == CHOOSE i \in 1..Len(cs) :
                      cs[i] = "|" /\ \A j \in 1..(i - 1) : cs[j] # "|"
         IN <<SubSeq(cs, 1, p - 1)>> \o Split(SubSeq(cs, p + 1, Len(cs)))

\* MILES_TO_KM = 1.60934
MILES_TO_KM == Float(160934, 100000)

Mph == <<"m", "p", "h">>

\* The units of the pattern: km/h, kmh, kph, mph, knots.
Units ==
    { <<"k", "m", "/", "h">>, <<"k", "m", "h">>, <<"k", "p", "h">>, Mph,
      <<"k", "n", "o", "t", "s">> }

\* The line feed.
Newline == "\n"

\* What (?:[ ]?(?:km/h|kmh|kph|mph|knots))? lets follow the number: nothing,
\* a unit, or a space and a unit.
OptionalUnits == {<<>>} \cup Units \cup { <<" ">> \o unit : unit \in Units }

\* What may follow the number up to the end of the string: $ matches at
\* the end and also just before a line feed that ends the string.
UnitSuffixes == OptionalUnits \cup { suffix \o <<Newline>> : suffix \in OptionalUnits }

\* The characters of [\.,0-9].
NumberChars == DOMAIN DigitValues \cup {".", ","}

\* [0-9][\.,0-9]+? up to what follows: a digit, then at least one more
\* character, each a digit, a dot or a comma.
IsNumberPart(cs) ==
    /\ Len(cs) >= 2
    /\ IsDigit(cs[1])
    /\ \A i \in 2..Len(cs) : cs[i] \in NumberChars

\* The length of the longest prefix of cs made of characters of [\.,0-9].
NumberPrefix(cs) ==
    IF \A i \in 1..Len(cs) : cs[i] \in NumberChars THEN Len(cs)
    ELSE (CHOOSE i \in 1..Len(cs) :
             cs[i] \notin NumberChars /\ \A j \in 1..(i - 1) : cs[j] \in NumberChars) - 1

\* re.match(pattern, value) with
\* pattern = ^([0-9][\.,0-9]+?)(?:[ ]?(?:km/h|kmh|kph|mph|knots))?$ :
\* whether it matches and its group 1.  No unit holds a character of
\* [\.,0-9] and the end is anchored, so group 1 is the longest prefix of
\* such characters and the rest is nothing, a unit, or a space and a unit,
\* with or without one line feed after it.
MatchAt(value, n) ==
    IF /\ IsNumberPart(SubSeq(value, 1, n))
       /\ SubSeq(value, n + 1, Len(value)) \in UnitSuffixes
    THEN [ok |-> TRUE, group1 |-> SubSeq(value, 1, n)]
    ELSE [ok |-> FALSE, group1 |-> <<>>]

Match(value) == MatchAt(value, NumberPrefix(value))

\* float(match.group(1).replace(",", ".")), times MILES_TO_KM when the
\* whole string maxspeed holds "mph"; NaN where float() raises ValueError.
ConvertParsed(parsed, maxspeed, convert_mph) ==
    IF ~parsed.ok THEN NaN
    ELSE IF convert_mph /\ Contains(Lower(maxspeed), Mph)
    THEN FloatMul(parsed.value, MILES_TO_KM)
    ELSE parsed.value

\* The clean value of a matched piece; NaN where match is None and
\* match.group raises AttributeError.
CleanMatched(match, maxspeed, convert_mph) ==
    IF ~match.ok THEN NaN
    ELSE ConvertParsed(ParseFloat(ReplaceCommas(match.group1)), maxspeed, convert_mph)

\* One turn of the loop of _clean_maxspeed, for the piece value of the
\* string maxspeed.
CleanValue(value, maxspeed, convert_mph) ==
    CleanMatched(Match(value), maxspeed, convert_mph)

\* float(agg(clean_values)), or None when a piece was invalid.
AggClean(agg, clean_values) ==
    IF \E i \in 1..Len(clean_values) : IsNaN(clean_values[i]) THEN NaN
    ELSE Agg(agg, clean_values)

\* The loop of _clean_maxspeed over the pieces of the string.
CleanValues(values, maxspeed, convert_mph) ==
    [i \in 1..Len(values) |-> CleanValue(values[i], maxspeed, convert_mph)]

\* _clean_maxspeed(maxspeed, agg=agg, convert_mph=convert_mph) for a string
\* maxspeed.  NaN stands for the None it returns on invalid input: its
\* callers drop None with dropna() or turn it into NaN with astype(float).
_clean_maxspeed(maxspeed, agg, convert_mph) ==
    AggClean(agg, CleanValues(Split(maxspeed), maxspeed, convert_mph))

\* The values of a "maxspeed" attribute: absent (NaN in the edge frame), a
\* string, or a list of strings.
NoMaxspeed == [kind |-> "nan", strs |-> <<>>]

StrMaxspeed(cs) == [kind |-> "str", strs |-> <<cs>>]

ListMaxspeed(l) == [kind |-> "list", strs |-> l]

\* What a cell of the maxspeed column holds after the collapse: NaN, a
\* string, a float or None.
Cell(kind, chars, num) == [kind |-> kind, chars |-> chars, num |-> num]

\* float(agg(...)) of the collapse, or None when it is NaN.
CollapsedCell(collapsed) ==
    IF IsNaN(collapsed) THEN Cell("none", <<>>, NaN) ELSE Cell("float", <<>>, collapsed)

\* _collapse_multiple_maxspeed_values(value, agg).
_collapse_multiple_maxspeed_values(value, agg) ==
    IF value.kind = "nan" THEN Cell("nan", <<>>, NaN)
    ELSE IF value.kind = "str" THEN Cell("str", value.strs[1], NaN)
    ELSE CollapsedCell(Agg(agg, DropNa([i \in 1..Len(value.strs) |->
                                           _clean_maxspeed(value.strs[i], "mean", TRUE)])))

\* astype(str) on a cell.
AsStr(cell) ==
    IF cell.kind = "str" THEN cell.chars
    ELSE IF cell.kind = "none" THEN <<"N", "o", "n", "e">>
    ELSE FloatToStr(cell.num)

(***************************************************************************)
(* add_edge_speeds.                                                        *)
(*                                                                         *)
(* An edge carries a "highway" attribute (a string or a list of strings),  *)
(* a "maxspeed" attribute (absent, a string or a list of strings) and,     *)
(* once the speeds are added, "speed_kph".                                 *)
(***************************************************************************)
\* The attribute is not set: like NaN, no number.
Absent == [kind |-> "absent", m |-> <<>>, e |-> 0]

StrHighway(name) == [kind |-> "str", names |-> <<name>>]

ListHighway(names) == [kind |-> "list", names |-> names]

SpeedEdge(u, v, highway, maxspeed) ==
    [u |-> u, v |-> v, highway |-> highway, maxspeed |-> maxspeed, speed_kph |-> Absent]

\* edges["highway"].map(lambda x: x[0] if isinstance(x, list) else x)
CollapseHighway(highway) ==
    IF highway.kind = "list" THEN highway.names[1] ELSE highway.names[1]

\* The highway column after the collapse.
HighwayColumn(g) == [i \in 1..Len(g) |-> CollapseHighway(g[i].highway)]

\* The column taken from the edges that have no speed_kph yet only: an edge
\* that already has one gets no speed of its own.
SpeedColumnOfNewEdges(g, agg) ==
    IF \A i \in 1..Len(g) : g[i].maxspeed.kind = "nan"
    THEN [i \in 1..Len(g) |-> NaN]
    ELSE [i \in 1..Len(g) |->
             IF g[i].speed_kph # Absent THEN NaN
             ELSE _clean_maxspeed(AsStr(_collapse_multiple_maxspeed_values(g[i].maxspeed, agg)),
                                  "mean", TRUE)]

\* The speed_kph column before imputation: the cleaned maxspeed of each
\* edge, or None all over when no edge has a maxspeed attribute.  A
\* speed_kph the edges already have is overwritten, never read.
SpeedColumn(g, agg) ==
    IF \A i \in 1..Len(g) : g[i].maxspeed.kind = "nan"
    THEN [i \in 1..Len(g) |-> NaN]
    ELSE [i \in 1..Len(g) |->
             _clean_maxspeed(AsStr(_collapse_multiple_maxspeed_values(g[i].maxspeed, agg)),
                             "mean", TRUE)]

\* The hwy_speeds argument: None, or a dict from highway types to speeds.
NoHwySpeeds == [given |-> FALSE, table |-> <<>>]

HwySpeeds(table) == [given |-> TRUE, table |-> table]

\* The fallback argument: None, or a speed.
NoFallback == [given |-> FALSE, value |-> NaN]

Fallback(x) == [given |-> TRUE, value |-> x]

\* pd.Series(dtype=float) if hwy_speeds is None else
\* pd.Series(hwy_speeds).dropna()
InitialDefaults(hwy_speeds) ==
    IF ~hwy_speeds.given THEN <<>>
    ELSE [hwy \in { h \in DOMAIN hwy_speeds.table : ~IsNaN(hwy_speeds.table[h]) } |->
             hwy_speeds.table[hwy]]

\* The highway types in the order of sorted(): groupby takes its groups
\* in this order, and the dicts given as hwy_speeds list their keys in it.
SortedHighways == <<"primary", "residential", "service">>

\* The index of the Series hwy_speed_avg, in order: the keys of hwy_speeds
\* as the dict lists them, then the types that the loop over the groups
\* has added.
SeriesKeys(series, initial) ==
    SelectSeq(SortedHighways, LAMBDA h : h \in DOMAIN series /\ h \in DOMAIN initial)
    \o SelectSeq(SortedHighways, LAMBDA h : h \in DOMAIN series /\ h \notin DOMAIN initial)

SeriesValuesAt(series, keys) == [i \in 1..Len(keys) |-> series[keys[i]]]

\* The values of the Series, in the order of its index.
SeriesValues(series, initial) == SeriesValuesAt(series, SeriesKeys(series, initial))

\* The speeds of the edges of one highway type: group["speed_kph"].
GroupSpeeds(highways, speeds, hwy) ==
    LET rows == SelectSeq([i \in 1..Len(speeds) |-> i], LAMBDA i : highways[i] = hwy)
    IN [r \in 1..Len(rows) |-> speeds[rows[r]]]

\* The loop over edges.groupby("highway") that takes the observed speeds of
\* every highway type, in hwy_speeds or not.
ObservedDefaultsOverTable(highways, speeds, hwy_speed_avg, agg) ==
    [hwy \in DOMAIN hwy_speed_avg \cup { highways[i] : i \in 1..Len(highways) } |->
        IF hwy \in { highways[i] : i \in 1..Len(highways) }
        THEN Agg(agg, GroupSpeeds(highways, speeds, hwy))
        ELSE hwy_speed_avg[hwy]]

\* The loop over edges.groupby("highway"): every highway type of the graph
\* that hwy_speed_avg does not hold yet gets agg of the speeds of its edges.
ObservedDefaults(highways, speeds, hwy_speed_avg, agg) ==
    [hwy \in DOMAIN hwy_speed_avg \cup { highways[i] : i \in 1..Len(highways) } |->
        IF hwy \in DOMAIN hwy_speed_avg THEN hwy_speed_avg[hwy]
        ELSE Agg(agg, GroupSpeeds(highways, speeds, hwy))]

\* The fallback written over every default, defined or not.
OverwriteDefaults(hwy_speed_avg, fallback, aggregate) ==
    [hwy \in DOMAIN hwy_speed_avg |->
        IF ~IsNaN(fallback) THEN fallback
        ELSE IF IsNaN(hwy_speed_avg[hwy]) THEN aggregate
        ELSE hwy_speed_avg[hwy]]

FillDefaultsOverwriting(hwy_speed_avg, initial, fallback, agg) ==
    OverwriteDefaults(hwy_speed_avg, fallback, Agg(agg, SeriesValues(hwy_speed_avg, initial)))

\* Only the first fillna: no aggregate when the fallback is NaN.
FillDefaultsFallbackOnly(hwy_speed_avg, initial, fallback, agg) ==
    [hwy \in DOMAIN hwy_speed_avg |->
        IF IsNaN(hwy_speed_avg[hwy]) THEN fallback ELSE hwy_speed_avg[hwy]]

\* hwy_speed_avg.fillna(fallback).fillna(agg(hwy_speed_avg))
\* Series.fillna(value): value wherever the series holds NaN.
FillNa(series, value) ==
    [k \in DOMAIN series |-> IF IsNaN(series[k]) THEN value ELSE series[k]]

\* hwy_speed_avg.fillna(fallback).fillna(agg(hwy_speed_avg))
FillDefaults(hwy_speed_avg, initial, fallback, agg) ==
    FillNa(FillNa(hwy_speed_avg, fallback), Agg(agg, SeriesValues(hwy_speed_avg, initial)))

\* The fill with a last resort: a speed still missing becomes zero.
FillEdgesWithZero(highways, speeds, hwy_speed_avg) ==
    [i \in 1..Len(speeds) |->
        IF ~IsNaN(speeds[i]) THEN speeds[i]
        ELSE IF highways[i] \in DOMAIN hwy_speed_avg /\ ~IsNaN(hwy_speed_avg[highways[i]])
             THEN hwy_speed_avg[highways[i]]
        ELSE Zero]

\* edges[["highway", "speed_kph"]].set_index("highway").iloc[:, 0]
\*     .fillna(hwy_speed_avg)
FillEdges(highways, speeds, hwy_speed_avg) ==
    [i \in 1..Len(speeds) |->
        IF ~IsNaN(speeds[i]) THEN speeds[i]
        ELSE IF highways[i] \in DOMAIN hwy_speed_avg THEN hwy_speed_avg[highways[i]]
        ELSE NaN]

\* pd.isna(speed_kph).all()
AllNull(speed_kph) == \A i \in 1..Len(speed_kph) : IsNaN(speed_kph[i])

UnresolvableSpeedData ==
    "ValueError: This graph's edges have no preexisting 'maxspeed' attribute values so you must pass hwy_speeds or fallback arguments."

\* The graph returned.  With it are kept two local values of the call: the
\* table of defaults hwy_speed_avg, and the column speeds of the cleaned
\* maxspeed values as it was before the missing speeds were filled.
ReturnedGraph(out) ==
    [kind |-> "graph", path |-> <<>>,
     items |-> [hwy_speed_avg |-> out.hwy_speed_avg, speeds |-> out.speeds]]

\* The last steps of add_edge_speeds: the missing speeds of the edges are
\* filled from the defaults of their highway types.
ImputeEdges(highways, speeds, hwy_speed_avg) ==
    [hwy_speed_avg |-> hwy_speed_avg, speeds |-> speeds,
     speed_kph |-> FillEdges(highways, speeds, hwy_speed_avg)]

\* The defaults of the highway types, then the speeds of the edges.
Impute(highways, speeds, initial, fallback, agg) ==
    ImputeEdges(highways, speeds,
                FillDefaults(ObservedDefaults(highways, speeds, initial, agg), initial, fallback, agg))

\* The body of add_edge_speeds up to the check of the speeds: the table of
\* defaults and the speed_kph column.
add_edge_speeds(g, hwy_speeds, fallback, agg) ==
    Impute(HighwayColumn(g), SpeedColumn(g, agg), InitialDefaults(hwy_speeds),
           IF fallback.given THEN fallback.value ELSE NaN, agg)

\* The end of add_edge_speeds with the travel times, now out of date, taken
\* off the edges.
SetEdgeSpeedsClearingTimes(out) ==
    IF AllNull(out.speed_kph)
    THEN /\ result' = Raised(UnresolvableSpeedData)
         /\ UNCHANGED G
    ELSE /\ result' = ReturnedGraph(out)
         /\ G' = [i \in 1..Len(G) |->
                     [G[i] EXCEPT !.speed_kph = out.speed_kph[i], !.travel_time = Absent]]

\* The end of add_edge_speeds: ValueError when every speed is null,
\* otherwise the speeds are written on the edges and the graph is returned.
SetEdgeSpeeds(out) ==
    IF AllNull(out.speed_kph)
    THEN /\ result' = Raised(UnresolvableSpeedData)
         /\ UNCHANGED G
    ELSE /\ result' = ReturnedGraph(out)
         /\ G' = [i \in 1..Len(G) |-> [G[i] EXCEPT !.speed_kph = out.speed_kph[i]]]

\* add_edge_speeds(G, hwy_speeds=hwy_speeds, fallback=fallback, agg=agg)
AddEdgeSpeeds(hwy_speeds, fallback, agg) ==
    /\ op = "idle"
    /\ op' = "add_edge_speeds"
    /\ args' = [hwy_speeds |-> hwy_speeds, fallback |-> fallback, agg |-> agg]
    /\ SetEdgeSpeeds(add_edge_speeds(G, hwy_speeds, fallback, agg))
    /\ UNCHANGED <<pool, gen>>

MaxSpeedEdges == 2

\* The highway types that the hwy_speeds tables may name.
HighwayTypes == {"primary", "residential"}

\* "residential", "primary" and ["service", "residential"].
HighwayValues ==
    << StrHighway("residential"), StrHighway("primary"),
       ListHighway(<<"service", "residential">>) >>

\* "50", "30 mph", "signals", ["50", "70"], and no maxspeed.
MaxspeedValues ==
    << StrMaxspeed(<<"5", "0">>),
       StrMaxspeed(<<"3", "0", " ", "m", "p", "h">>),
       StrMaxspeed(<<"s", "i", "g", "n", "a", "l", "s">>),
       ListMaxspeed(<< <<"5", "0">>, <<"7", "0">> >>),
       NoMaxspeed >>

\* The speeds a hwy_speeds table may hold.
OverrideValues == { FloatOfNat(30), NaN }

HwySpeedsValues ==
    {NoHwySpeeds} \cup
    UNION { { HwySpeeds(t) : t \in [S -> OverrideValues] } : S \in SUBSET HighwayTypes }

FallbackValues == { NoFallback, Fallback(FloatOfNat(20)) }

AggValues == {"mean", "max"}

\* The edges 1 -> 2, 2 -> 3, ... of a graph with the attributes that the
\* ranks r give them: rank (h - 1) * Len(MaxspeedValues) + m stands for
\* HighwayValues[h] and MaxspeedValues[m].
SpeedGraph(r) ==
    [i \in DOMAIN r |->
        SpeedEdge(i, i + 1,
                  HighwayValues[((r[i] - 1) \div Len(MaxspeedValues)) + 1],
                  MaxspeedValues[((r[i] - 1) % Len(MaxspeedValues)) + 1])]

\* Speeds are added to the graphs of one to MaxSpeedEdges edges with every
\* combination of attributes, each combination in one order of its edges.
InitSpeeds ==
    /\ \E n \in 1..MaxSpeedEdges :
         \E r \in [1..n -> 1..(Len(HighwayValues) * Len(MaxspeedValues))] :
            /\ \A i \in 1..(n - 1) : r[i] <= r[i + 1]
            /\ G = SpeedGraph(r)
    /\ op = "idle"
    /\ args = [hwy_speeds |-> NoHwySpeeds, fallback |-> NoFallback, agg |-> "mean"]
    /\ result = Pending
    /\ pool = NoPool
    /\ gen = NoGenerator

NextSpeeds ==
    \E hwy_speeds \in HwySpeedsValues, fallback \in FallbackValues, agg \in AggValues :
        AddEdgeSpeeds(hwy_speeds, fallback, agg)

SpecSpeeds == InitSpeeds /\ [][NextSpeeds]_vars

(***************************************************************************)
(* Reference notions for the speeds.  own is the column of the speeds the  *)
(* edges have of their own (their maxspeed, cleaned; NaN if none), types   *)
(* the column of their highway types.                                      *)
(***************************************************************************)
OwnSpeeds == result.items.speeds

\* The table of defaults the call ended with.
Defaults == result.items.hwy_speed_avg

TypesOfEdges == HighwayColumn(G)

TypesOfGraph(types) == { types[i] : i \in 1..Len(types) }

\* The highway types to which the hwy_speeds table gives a speed.
Overridden ==
    IF args.hwy_speeds.given
    THEN { h \in DOMAIN args.hwy_speeds.table : ~IsNaN(args.hwy_speeds.table[h]) }
    ELSE {}

\* The speeds observed on the edges of a highway type.
ObservedSpeeds(own, types, hwy) ==
    SelectSeq([i \in 1..Len(own) |-> IF types[i] = hwy THEN own[i] ELSE NaN],
              LAMBDA x : ~IsNaN(x))

\* The aggregate of the speeds xs, at least one and none of them NaN.
Aggregate(xs) ==
    IF args.agg = "max"
    THEN CHOOSE x \in { xs[i] : i \in 1..Len(xs) } : \A i \in 1..Len(xs) : ~FloatLess(x, xs[i])
    ELSE FloatDiv(FloatSum(xs), FloatOfNat(Len(xs)))

\* The highway types whose default is defined by override or observation.
DefinedTypes(own, types) ==
    Overridden \cup { hwy \in TypesOfGraph(types) : ObservedSpeeds(own, types, hwy) # <<>> }

\* The defined default of a highway type: the override, else the aggregate
\* of the speeds observed on its edges.
DefinedDefault(own, types, hwy) ==
    IF hwy \in Overridden THEN args.hwy_speeds.table[hwy]
    ELSE Aggregate(ObservedSpeeds(own, types, hwy))

DefinedDefaults(own, types) ==
    [hwy \in DefinedTypes(own, types) |-> DefinedDefault(own, types, hwy)]

\* C8: after add_edge_speeds, either it has raised its ValueError and set
\* no speed, or every edge of the graph has a speed_kph that is a number.
C8_AllSpeedsSetOrFailed ==
    op = "add_edge_speeds" =>
        \/ /\ result = Raised(UnresolvableSpeedData)
           /\ \A i \in 1..Len(G) : G[i].speed_kph = Absent
        \/ /\ result.kind = "graph"
           /\ \A i \in 1..Len(G) : ~IsNaN(G[i].speed_kph) /\ G[i].speed_kph.kind = "float"

C8_WitnessOn(own, types, defined) ==
    \E i \in 1..Len(G) :
        /\ IsNaN(own[i])
        /\ types[i] \notin DOMAIN defined
        /\ ~IsNaN(G[i].speed_kph)

\* Success without fallback on a graph with an edge that has no speed of
\* its own and whose highway type has neither observed speed nor override.
C8_Witness ==
    /\ op = "add_edge_speeds"
    /\ result.kind = "graph"
    /\ ~args.fallback.given
    /\ C8_WitnessOn(OwnSpeeds, TypesOfEdges, DefinedDefaults(OwnSpeeds, TypesOfEdges))

C9_HoldsOn(own, types, defined) ==
    \A i \in 1..Len(G) :
        IF ~IsNaN(own[i]) THEN G[i].speed_kph = own[i]
        ELSE /\ types[i] \in DOMAIN Defaults
             /\ G[i].speed_kph = Defaults[types[i]]
             /\ types[i] \in DOMAIN defined => G[i].speed_kph = defined[types[i]]

\* C9: an edge with a valid speed of its own keeps exactly that speed, also
\* when hwy_speeds names its highway type; an edge without one receives the
\* default of its highway type, which is the speed hwy_speeds gives the
\* type when it gives one (a NaN entry is no entry), and otherwise the
\* aggregate of the speeds observed on the edges of the type when there
\* are any.
C9_OwnSpeedKeptElseTypeDefault ==
    (op = "add_edge_speeds" /\ result.kind = "graph") =>
        C9_HoldsOn(OwnSpeeds, TypesOfEdges, DefinedDefaults(OwnSpeeds, TypesOfEdges))

\* The scenario of the specification: A -> B has the speed "50", B -> C of
\* the same highway type has none and receives 50; no override, no
\* fallback.
C9_Witness ==
    /\ op = "add_edge_speeds"
    /\ result.kind = "graph"
    /\ ~args.hwy_speeds.given
    /\ ~args.fallback.given
    /\ Len(G) = 2
    /\ G[1].maxspeed = StrMaxspeed(<<"5", "0">>)
    /\ G[2].maxspeed = NoMaxspeed
    /\ TypesOfEdges[1] = TypesOfEdges[2]
    /\ G[1].speed_kph = FloatOfNat(50)
    /\ G[2].speed_kph = FloatOfNat(50)

C10_HoldsOn(types, defined) ==
    /\ DOMAIN Defaults = Overridden \cup TypesOfGraph(types)
    /\ \A hwy \in DOMAIN Defaults :
         IF hwy \in DOMAIN defined THEN Defaults[hwy] = defined[hwy]
         ELSE IF args.fallback.given THEN Defaults[hwy] = args.fallback.value
         ELSE Defaults[hwy] = Aggregate(SeriesValues(defined, InitialDefaults(args.hwy_speeds)))

\* C10: in the table of defaults a highway type with no observed speed and
\* no override has the fallback when one is given, and otherwise the
\* aggregate of the defined defaults of all types; a type whose default is
\* defined by override or by observation has that default, fallback or not.
C10_FallbackOnlyForUndefinedDefaults ==
    (op = "add_edge_speeds" /\ result.kind = "graph") =>
        C10_HoldsOn(TypesOfEdges, DefinedDefaults(OwnSpeeds, TypesOfEdges))

C10_WitnessOn(types, defined) ==
    \E hwy \in TypesOfGraph(types) \ DOMAIN defined :
        \E a \in Overridden, b \in DOMAIN defined \ Overridden :
            /\ Defaults[a] # Defaults[b]
            /\ Defaults[hwy] # Defaults[a]
            /\ Defaults[hwy] # Defaults[b]

\* No fallback: a type without observed speed and without override gets
\* the aggregate of two different defined defaults, one observed and one
\* from hwy_speeds.
C10_Witness ==
    /\ op = "add_edge_speeds"
    /\ result.kind = "graph"
    /\ ~args.fallback.given
    /\ C10_WitnessOn(TypesOfEdges, DefinedDefaults(OwnSpeeds, TypesOfEdges))

\* The speeds the edges of the graph have of their own, their cleaned
\* maxspeed values: the column the call returned with, or computed from the
\* graph when the call raised and left the graph as it was.
OwnSpeedsOfGraph ==
    IF result.kind = "graph" THEN OwnSpeeds ELSE SpeedColumn(G, args.agg)

\* No edge has a speed of its own, hwy_speeds gives no type a speed, and
\* no fallback is given.
NothingToResolveWith(own) ==
    /\ \A i \in 1..Len(own) : IsNaN(own[i])
    /\ Overridden = {}
    /\ ~args.fallback.given

C11_HoldsOn(own) ==
    /\ result = Raised(UnresolvableSpeedData) <=> NothingToResolveWith(own)
    /\ result = Raised(UnresolvableSpeedData) =>
           \A i \in 1..Len(G) : G[i].speed_kph = Absent
    /\ result.kind = "graph" =>
           \A i \in 1..Len(G) :
               /\ ~IsNaN(G[i].speed_kph)
               /\ G[i].speed_kph # Zero
               /\ \/ G[i].speed_kph = own[i]
                  \/ G[i].speed_kph \in { Defaults[h] : h \in DOMAIN Defaults }

\* C11: add_edge_speeds raises its ValueError exactly when no edge has a
\* valid speed of its own, hwy_speeds gives no highway type a speed and no
\* fallback is given, and then it sets no speed on any edge; in every other
\* case it succeeds, and no edge gets the speed zero or a speed that is
\* neither its own nor a default of the table.
C11_RaisesExactlyWhenNothingResolves ==
    op = "add_edge_speeds" => C11_HoldsOn(OwnSpeedsOfGraph)

\* The call raises on a graph whose edges have maxspeed values, none of
\* them valid, with a hwy_speeds table that holds only NaN entries.
C11_Witness ==
    /\ op = "add_edge_speeds"
    /\ result = Raised(UnresolvableSpeedData)
    /\ \E i \in 1..Len(G) : G[i].maxspeed.kind = "str"
    /\ args.hwy_speeds.given
    /\ DOMAIN args.hwy_speeds.table # {}

\* add_edge_speeds called a second time, with the arguments of the first
\* call, on the graph that the first call returned.
AddEdgeSpeedsAgain ==
    /\ op = "add_edge_speeds"
    /\ result.kind = "graph"
    /\ op' = "add_edge_speeds again"
    /\ args' = args
    /\ SetEdgeSpeeds(add_edge_speeds(G, args.hwy_speeds, args.fallback, args.agg))
    /\ UNCHANGED <<pool, gen>>

MaxTwiceEdges == 2

\* The graphs of InitSpeeds with at most MaxTwiceEdges edges.
InitSpeedsTwice ==
    /\ \E n \in 1..MaxTwiceEdges :
         \E r \in [1..n -> 1..(Len(HighwayValues) * Len(MaxspeedValues))] :
            /\ \A i \in 1..(n - 1) : r[i] <= r[i + 1]
            /\ G = SpeedGraph(r)
    /\ op = "idle"
    /\ args = [hwy_speeds |-> NoHwySpeeds, fallback |-> NoFallback, agg |-> "mean"]
    /\ result = Pending
    /\ pool = NoPool
    /\ gen = NoGenerator

NextSpeedsTwice ==
    \/ \E hwy_speeds \in HwySpeedsValues, fallback \in FallbackValues, agg \in AggValues :
           AddEdgeSpeeds(hwy_speeds, fallback, agg)
    \/ AddEdgeSpeedsAgain

SpecSpeedsTwice == InitSpeedsTwice /\ [][NextSpeedsTwice]_vars

\* C12: a second add_edge_speeds with the same arguments on the graph the
\* first one returned succeeds again and leaves every edge of the graph as
\* it was, speed_kph included, with the same table of defaults.
C12_SecondRunChangesNothing ==
    [][(op = "add_edge_speeds" /\ op' = "add_edge_speeds again") =>
           (G' = G /\ result' = result)]_vars

\* After the second run: the graph has an edge whose own speed was in miles
\* per hour, and an edge without own speed that holds a default different
\* from the fallback and from every speed hwy_speeds gives.
C12_Witness ==
    /\ op = "add_edge_speeds again"
    /\ result.kind = "graph"
    /\ \E i \in 1..Len(G) :
          /\ G[i].maxspeed = StrMaxspeed(<<"3", "0", " ", "m", "p", "h">>)
          /\ G[i].speed_kph = FloatMul(FloatOfNat(30), MILES_TO_KM)
    /\ \E i \in 1..Len(G) :
          /\ IsNaN(OwnSpeeds[i])
          /\ G[i].speed_kph = FloatMul(FloatOfNat(30), MILES_TO_KM)

\* ---------------------------------------------------------------------
\* add_edge_travel_times
\* ---------------------------------------------------------------------

\* An edge for add_edge_travel_times, on pair p.  Its length is held as in
\* the routing graphs: the number w of metres when lengthType t is
\* "number", else null or missing.  Its speed_kph is a number, NaN for a
\* null value, or Absent when the edge has no such attribute.
TimeEdge(p, w, t, speed_kph) ==
    [u |-> EdgePairs[p][1], v |-> EdgePairs[p][2], pair |-> p,
     length |-> w, lengthType |-> t,
     speed_kph |-> speed_kph, travel_time |-> Absent]

\* The columns of the frame graph_to_gdfs makes of the edges: one for every
\* attribute that at least one edge has.
EdgeColumns(g) ==
    (IF \E i \in 1..Len(g) : g[i].lengthType # "missing" THEN {"length"} ELSE {})
    \cup (IF \E i \in 1..Len(g) : g[i].speed_kph # Absent THEN {"speed_kph"} ELSE {})

\* The cell of the frame for an attribute value of an edge: NaN when the
\* edge has no such attribute.
FrameCell(value) == IF value = Absent THEN NaN ELSE value

\* The cell of the frame for the length of an edge.
LengthCell(e) ==
    IF e.lengthType = "number" THEN FloatOfNat(e.length)
    ELSE IF e.lengthType = "null" THEN NaN
    ELSE FrameCell(Absent)

\* "length" in edges.columns
HasLengthColumn(g) == "length" \in EdgeColumns(g)

\* "speed_kph" in edges.columns
HasSpeedColumn(g) == "speed_kph" \in EdgeColumns(g)

\* edges["length"]
LengthValuesOf(g) == [i \in 1..Len(g) |-> LengthCell(g[i])]

\* edges["speed_kph"]
SpeedValuesOf(g) == [i \in 1..Len(g) |-> FrameCell(g[i].speed_kph)]

\* pd.isna(column).any()
AnyNull(column) == \E i \in 1..Len(column) : IsNaN(column[i])

MissingAttribute == "KeyError: All edges must have 'length' and 'speed_kph' attributes."

NullAttribute == "ValueError: Edge 'length' and 'speed_kph' values must be non-null."

\* distance_km = edges["length"] / 1000
DistanceKm(length) == FloatDiv(length, FloatOfNat(1000))

\* Kilometres per minute: the speed divided by 60 only.
SpeedKmMin(speed_kph) == FloatDiv(speed_kph, FloatOfNat(60))

\* speed_km_sec = edges["speed_kph"] / (60 * 60)
SpeedKmSec(speed_kph) == FloatDiv(speed_kph, FloatOfNat(60 * 60))

\* travel_time = distance_km / speed_km_sec
TravelTime(length, speed_kph) == FloatDiv(DistanceKm(length), SpeedKmSec(speed_kph))

\* The graph returned by add_edge_travel_times.
ReturnedTimes == [kind |-> "graph", path |-> <<>>, items |-> <<>>]

\* The body of add_edge_travel_times on the two columns.
SetTravelTimes(lengths, speeds) ==
    IF ~(HasLengthColumn(G) /\ HasSpeedColumn(G))
    THEN /\ result' = Raised(MissingAttribute)
         /\ UNCHANGED G
    ELSE IF AnyNull(lengths) \/ AnyNull(speeds)
    THEN /\ result' = Raised(NullAttribute)
         /\ UNCHANGED G
    ELSE /\ result' = ReturnedTimes
         /\ G' = [i \in 1..Len(G) |->
                     [G[i] EXCEPT !.travel_time = TravelTime(lengths[i], speeds[i])]]

\* add_edge_travel_times(G)
AddEdgeTravelTimes ==
    /\ op = "idle"
    /\ op' = "add_edge_travel_times"
    /\ SetTravelTimes(LengthValuesOf(G), SpeedValuesOf(G))
    /\ UNCHANGED <<args, pool, gen>>

MaxTimeEdges == 2

\* Lengths in metres: 1000, 2000, 250, null, and no attribute.
EdgeLengths ==
    { <<1000, "number">>, <<2000, "number">>, <<250, "number">>,
      <<0, "null">>, <<0, "missing">> }

\* Speeds in km/h: 36, 50, 30 mph, null, and no attribute.
EdgeSpeeds == { FloatOfNat(36), FloatOfNat(50), FloatMul(FloatOfNat(30), MILES_TO_KM), NaN, Absent }

\* Travel times are added to the graphs of one to MaxTimeEdges edges, on
\* the first pairs of EdgePairs, with every combination of lengths and
\* speeds.
InitTimes ==
    /\ \E n \in 1..MaxTimeEdges :
         \E l \in [1..n -> EdgeLengths], s \in [1..n -> EdgeSpeeds] :
            G = [i \in 1..n |-> TimeEdge(i, l[i][1], l[i][2], s[i])]
    /\ op = "idle"
    /\ args = NoArgs
    /\ result = Pending
    /\ pool = NoPool
    /\ gen = NoGenerator

NextTimes == AddEdgeTravelTimes

SpecTimes == InitTimes /\ [][NextTimes]_vars

\* An edge of the graph is without length or without speed_kph.
SomeAttributeAbsent ==
    \E i \in 1..Len(G) : G[i].lengthType = "missing" \/ G[i].speed_kph = Absent

\* An edge of the graph has a null length or a null speed_kph.
SomeAttributeNull ==
    \E i \in 1..Len(G) : G[i].lengthType = "null" \/ G[i].speed_kph = NaN

\* C13: add_edge_travel_times succeeds only when every edge has a length
\* and a speed_kph that are not null, and otherwise changes nothing; it
\* raises MissingAttribute when an attribute is absent from an edge and
\* none is null, and NullAttribute when an attribute is null on an edge
\* and none is absent.
C13_MissingWhenAbsentNullWhenNull ==
    op = "add_edge_travel_times" =>
        /\ result = ReturnedTimes <=> ~(SomeAttributeAbsent \/ SomeAttributeNull)
        /\ result # ReturnedTimes =>
               /\ result \in {Raised(MissingAttribute), Raised(NullAttribute)}
               /\ \A i \in 1..Len(G) : G[i].travel_time = Absent
        /\ (SomeAttributeAbsent /\ ~SomeAttributeNull) => result = Raised(MissingAttribute)
        /\ (SomeAttributeNull /\ ~SomeAttributeAbsent) => result = Raised(NullAttribute)

\* What the code does: KeyError when no edge at all has length, or none has
\* speed_kph; ValueError when both are on some edge and one of them is
\* null on an edge or absent from an edge; nothing is imputed.
C13_RaisesByColumns ==
    op = "add_edge_travel_times" =>
        /\ result = ReturnedTimes <=> ~(SomeAttributeAbsent \/ SomeAttributeNull)
        /\ result # ReturnedTimes => \A i \in 1..Len(G) : G[i].travel_time = Absent
        /\ result = Raised(MissingAttribute) <=>
               \/ \A i \in 1..Len(G) : G[i].lengthType = "missing"
               \/ \A i \in 1..Len(G) : G[i].speed_kph = Absent
        /\ result = Raised(NullAttribute) <=>
               /\ SomeAttributeAbsent \/ SomeAttributeNull
               /\ \E i \in 1..Len(G) : G[i].lengthType # "missing"
               /\ \E i \in 1..Len(G) : G[i].speed_kph # Absent

\* The seconds that length metres take at speed_kph kilometres per hour,
\* as floats compute them: (length / 1000) / (speed_kph / 3600).
SecondsOver(length, speed_kph) ==
    FloatDiv(FloatDiv(FloatOfNat(length), FloatOfNat(1000)),
             FloatDiv(speed_kph, FloatOfNat(3600)))

\* C14: after a successful add_edge_travel_times every edge has a
\* travel_time that is a number, equal to (length / 1000) / (speed_kph /
\* 3600) in floating point: exactly 100 for length 1000 and speed 36,
\* exactly 144 for length 2000 and speed 50.
C14_TravelTimeIsLengthOverSpeed ==
    (op = "add_edge_travel_times" /\ result = ReturnedTimes) =>
        \A i \in 1..Len(G) :
            /\ ~IsNaN(G[i].travel_time)
            /\ G[i].travel_time = SecondsOver(G[i].length, G[i].speed_kph)
            /\ (G[i].length = 1000 /\ G[i].speed_kph = FloatOfNat(36))
                   => G[i].travel_time = FloatOfNat(100)
            /\ (G[i].length = 2000 /\ G[i].speed_kph = FloatOfNat(50))
                   => G[i].travel_time = FloatOfNat(144)

\* Both examples of the specification in one graph.
C14_Witness ==
    /\ op = "add_edge_travel_times"
    /\ result = ReturnedTimes
    /\ Len(G) = 2
    /\ G[1].length = 1000 /\ G[1].speed_kph = FloatOfNat(36)
    /\ G[1].travel_time = FloatOfNat(100)
    /\ G[2].length = 2000 /\ G[2].speed_kph = FloatOfNat(50)
    /\ G[2].travel_time = FloatOfNat(144)

\* ---------------------------------------------------------------------
\* Verification of the weight attribute before the paths are sought
\* ---------------------------------------------------------------------

MaxVerifyEdges == 3

\* The pairs that carry the edges: 1 -> 2, 1 -> 4, 2 -> 3, 2 -> 4, 3 -> 4.
VerifyPairs == {1, 3, 4, 6, 7}

\* What the weight attribute of an edge holds.
LengthTypes == {"number", "text", "null", "missing"}

\* The edge on pair p whose weight attribute is of type t; w is its value
\* when it is a number.
TypedEdge(p, w, t) == [RoutingEdge(p, w) EXCEPT !.lengthType = t]

\* The graphs of at most MaxVerifyEdges edges, no two of them parallel,
\* over VerifyPairs; the weights that are numbers are 1 on the pairs from
\* node 2 and 3 elsewhere, so that 1 -> 2 -> 4 weighs 4 and 1 -> 4 weighs 3.
InitVerify ==
    /\ \E P \in SUBSET VerifyPairs :
         /\ Cardinality(P) <= MaxVerifyEdges
         /\ \E t \in [P -> LengthTypes] :
              G = LET pairs == SelectSeq([p \in AllPairs |-> p], LAMBDA p : p \in P)
                  IN [i \in 1..Len(pairs) |->
                        TypedEdge(pairs[i], IF EdgePairs[pairs[i]][1] = 2 THEN 1 ELSE 3,
                                  t[pairs[i]])]
    /\ op = "idle"
    /\ args = NoArgs
    /\ result = Pending
    /\ pool = NoPool
    /\ gen = NoGenerator

\* The caller, who owns the graph, writes the weight attribute of its i-th
\* edge while it holds a generator that has not ended: before the first
\* next() or between two of them.
WriteWeight(i, t) ==
    /\ op \in {"k_shortest_paths", "next"}
    /\ gen.state \in {"created", "suspended"}
    /\ i \in 1..Len(G)
    /\ t # G[i].lengthType
    /\ G' = [G EXCEPT ![i].lengthType = t]
    /\ op' = "write"
    /\ UNCHANGED <<args, result, pool, gen>>

\* One pair at a time, two pairs on a pool of two workers, and k paths
\* taken one by one from the generator, the caller writing in between.
NextVerify ==
    \/ \E od \in KPairs : ShortestPath(Scalar(od[1]), Scalar(od[2]), 1, 1)
    \/ ShortestPath(Listed(<<1, 2>>), Listed(<<4, 4>>), 2, 2)
    \/ WorkerTake
    \/ \E c \in 1..MaxPairs : WorkerFinish(c)
    \/ PoolGet
    \/ \E od \in KPairs, k \in 0..MaxK : KShortestPaths(od[1], od[2], k)
    \/ GeneratorNext
    \/ \E i \in 1..MaxVerifyEdges, t \in LengthTypes : WriteWeight(i, t)

SpecVerify == InitVerify /\ [][NextVerify]_vars

\* A value of the weight attribute that is there and is not a number.
SomeNonNumeric == \E i \in 1..Len(G) : G[i].lengthType = "text"

\* The attribute is missing or null on some edges but not on all.
SomeButNotAllNull ==
    /\ \E i \in 1..Len(G) : G[i].lengthType \in {"null", "missing"}
    /\ \E i \in 1..Len(G) : G[i].lengthType \notin {"null", "missing"}

\* The edges a search can take and what they weigh: an edge without the
\* attribute weighs 1, an edge whose value is None cannot be taken.
Usable(g) ==
    LET es == SelectSeq(g, LAMBDA e : e.lengthType # "null")
    IN [i \in 1..Len(es) |->
          IF es[i].lengthType = "missing" THEN [es[i] EXCEPT !.length = 1] ELSE es[i]]

\* r is what solving the pair on the usable edges gives: a lightest path,
\* or None when there is no path.
SolvedOn(g, o, d, r) ==
    IF Reachable(g, o, d) THEN r.kind = "path" /\ IsShortest(g, o, d, r.path)
    ELSE r.kind = "none"

\* The call went on to seek paths, and what it gave is what the usable
\* edges allow.
PathsSought(g) ==
    \/ /\ op = "pool"
       /\ pool # NoPool
       /\ \A i \in 1..Len(pool.value) :
            pool.value[i] # Pending =>
                SolvedOn(g, args.orig.nodes[i], args.dest.nodes[i], pool.value[i])
    \/ /\ op = "shortest_path"
       /\ IF args.orig.scalar
          THEN SolvedOn(g, args.orig.nodes[1], args.dest.nodes[1], result)
          ELSE /\ result.kind = "list"
               /\ Len(result.items) = Len(args.orig.nodes)
               /\ \A i \in 1..Len(result.items) :
                    SolvedOn(g, args.orig.nodes[i], args.dest.nodes[i], result.items[i])

\* The first next() on a generator of k_shortest_paths went on to seek
\* paths on the edges g, and r is what it gave: the end when no path was
\* asked for, NetworkXNoPath when there is none, else a lightest path.
FirstPathSought(g, r) ==
    IF gen.k = 0 THEN r = Raised(StopIteration)
    ELSE IF ~Reachable(g, gen.orig, gen.dest) THEN r = Raised(NoPathFound)
    ELSE r.kind = "path" /\ IsShortest(g, gen.orig, gen.dest, r.path)

\* C15: in shortest_path and in k_shortest_paths the weight attribute is
\* verified before any path is sought.  When a value that is there is not
\* a number, shortest_path raises the ValueError of the verification,
\* whatever was asked, no pool is started and no path is given; the
\* generator of k_shortest_paths, whose body runs at the first next(),
\* raises it then, for the graph as it is then, and ends with no path
\* yielded.  When the values are numbers but the attribute is missing or
\* None on some edges and not on all, the verification only warns and the
\* paths are sought over the edges that can be taken.  A later next() no
\* longer verifies: it yields a path of the digraph taken at the first
\* next() or ends.
C15_VerifiedBeforePathsAreSought ==
    [][/\ op' \in {"shortest_path", "pool"} =>
            /\ SomeNonNumeric =>
                  /\ op' # "pool"
                  /\ result' = Raised(InvalidAttributeType)
                  /\ pool' = NoPool
            /\ (~SomeNonNumeric /\ SomeButNotAllNull) =>
                  /\ _verify_edge_attribute(G) = "warn"
                  /\ PathsSought(Usable(G))'
       /\ op' = "k_shortest_paths" =>
            /\ result' = ReturnedGenerator
            /\ gen'.state = "created"
       /\ (op' = "next" /\ gen.state = "created") =>
            /\ SomeNonNumeric =>
                  /\ result' = Raised(InvalidAttributeType)
                  /\ gen'.state = "finished"
                  /\ gen'.listA = <<>>
            /\ (~SomeNonNumeric /\ SomeButNotAllNull) =>
                  /\ _verify_edge_attribute(G) = "warn"
                  /\ FirstPathSought(Usable(G), result')
       /\ (op' = "next" /\ gen.state = "suspended") =>
            \/ result' = Raised(StopIteration)
            \/ /\ result'.kind = "path"
               /\ result'.path \in SimplePaths(Usable(gen.digraph), gen.orig, gen.dest)
               /\ \A i \in 1..Len(gen.listA) : result'.path # gen.listA[i]]_vars

\* The verification has warned and the path returned goes round the edge
\* 1 -> 4 whose weight is None, over the edge 1 -> 2 that has no weight.
C15_Witness ==
    /\ op = "shortest_path"
    /\ args.orig = Scalar(1)
    /\ args.dest = Scalar(4)
    /\ \E i \in 1..Len(G) : G[i].u = 1 /\ G[i].v = 4 /\ G[i].lengthType = "null"
    /\ \E i \in 1..Len(G) : G[i].u = 1 /\ G[i].v = 2 /\ G[i].lengthType = "missing"
    /\ \E i \in 1..Len(G) : G[i].u = 2 /\ G[i].v = 4 /\ G[i].lengthType = "number"
    /\ result = Returned(Path(<<1, 2, 4>>))

\* ---------------------------------------------------------------------
\* The six operations, one after another on one graph
\* ---------------------------------------------------------------------

\* An edge with the attributes that the operations read and write.
FrameEdge(p, w, highway, maxspeed) ==
    [u |-> EdgePairs[p][1], v |-> EdgePairs[p][2], pair |-> p,
     length |-> w, lengthType |-> "number",
     highway |-> highway, maxspeed |-> maxspeed,
     speed_kph |-> Absent, travel_time |-> Absent]

MaxFrameEdges == 2

\* The pairs that carry the edges: 1 -> 2, 1 -> 4 and 2 -> 4.
FramePairs == {1, 3, 6}

\* "residential" and "primary".
FrameHighways == { HighwayValues[1], HighwayValues[2] }

\* "50" and no maxspeed.
FrameMaxspeeds == { MaxspeedValues[1], NoMaxspeed }

\* The graphs of one to MaxFrameEdges edges over FramePairs; an edge from
\* node 1 is 2000 metres long, an edge from node 2 is 1000.
InitFrame ==
    /\ \E P \in SUBSET FramePairs :
         /\ P # {}
         /\ Cardinality(P) <= MaxFrameEdges
         /\ \E h \in [P -> FrameHighways], ms \in [P -> FrameMaxspeeds] :
              G = LET pairs == SelectSeq([p \in AllPairs |-> p], LAMBDA p : p \in P)
                  IN [i \in 1..Len(pairs) |->
                        FrameEdge(pairs[i], IF EdgePairs[pairs[i]][1] = 2 THEN 1000 ELSE 2000,
                                  h[pairs[i]], ms[pairs[i]])]
    /\ op = "idle"
    /\ args = NoArgs
    /\ result = Pending
    /\ pool = NoPool
    /\ gen = NoGenerator

\* The caller has the outcome of an operation and goes on to the next.
Continue ==
    /\ op \notin {"idle", "pool"}
    /\ op' = "idle"
    /\ args' = NoArgs
    /\ result' = Pending
    /\ pool' = NoPool
    /\ UNCHANGED <<G, gen>>

NextFrame ==
    \/ ShortestPath(Scalar(1), Scalar(4), 1, 1)
    \/ ShortestPath(Listed(<<1, 2>>), Listed(<<4, 4>>), 2, 2)
    \/ WorkerTake
    \/ \E c \in 1..MaxPairs : WorkerFinish(c)
    \/ PoolGet
    \/ KShortestPaths(1, 4, 2)
    \/ GeneratorNext
    \/ \E route \in { <<1, 4>>, <<1, 2, 4>> } : RouteToGdf(route)
    \/ \E hwy_speeds \in { NoHwySpeeds, HwySpeeds([h \in {"residential"} |-> FloatOfNat(30)]) },
          fallback \in FallbackValues :
           AddEdgeSpeeds(hwy_speeds, fallback, "mean")
    \/ AddEdgeTravelTimes
    \/ Continue

SpecFrame == InitFrame /\ [][NextFrame]_vars

\* C16: no step of any operation adds or removes an edge or changes the
\* end nodes or the place among its parallel edges of an edge, nor any
\* attribute other than speed_kph and travel_time; speed_kph changes only
\* in a step of add_edge_speeds and travel_time only in a step of
\* add_edge_travel_times, so that shortest_path (one pair, or a batch on a
\* pool), k_shortest_paths (its call and every next() on its generator,
\* with other operations in between) and route_to_gdf leave the graph as
\* it is.
C16_OnlySpeedsAndTimesAreWritten ==
    [][/\ Len(G') = Len(G)
       /\ \A i \in 1..Len(G) :
            /\ DOMAIN G'[i] = DOMAIN G[i]
            /\ \A f \in DOMAIN G[i] \ {"speed_kph", "travel_time"} : G'[i][f] = G[i][f]
            /\ op' # "add_edge_speeds" => G'[i].speed_kph = G[i].speed_kph
            /\ op' # "add_edge_travel_times" => G'[i].travel_time = G[i].travel_time
       /\ (op = "pool" \/ op' \in {"shortest_path", "pool", "k_shortest_paths", "next",
                                    "route_to_gdf", "idle"}) => G' = G]_vars

\* After speeds and travel times were added, speeds were added again with
\* another outcome and a route was projected: the travel times on the
\* edges are the ones of the earlier speeds.
C16_Witness ==
    /\ op = "route_to_gdf"
    /\ result.kind = "frame"
    /\ \E i \in 1..Len(G) :
          /\ ~IsNaN(G[i].speed_kph)
          /\ ~IsNaN(G[i].travel_time)
          /\ G[i].travel_time # SecondsOver(G[i].length, G[i].speed_kph)

\* ---------------------------------------------------------------------
\* The normalization of one raw maxspeed value
\* ---------------------------------------------------------------------

\* The speed add_edge_speeds reads from the maxspeed value of one edge:
\* the list collapsed with agg, the outcome turned into a string and
\* cleaned.  NaN stands for no value.
NormalizedSpeed(value, agg) ==
    _clean_maxspeed(AsStr(_collapse_multiple_maxspeed_values(value, agg)), "mean", TRUE)

\* The speed read from the value.
ReturnedSpeed(x) == [kind |-> "speed", path |-> <<>>, items |-> <<x>>]

\* One raw value is normalized.
NormalizeSpeed ==
    /\ op = "idle"
    /\ op' = "normalize"
    /\ result' = ReturnedSpeed(NormalizedSpeed(args.maxspeed, args.agg))
    /\ UNCHANGED <<G, args, pool, gen>>

\* "60 mph", "30 mph", "50", "50 km/h", "70 kph": single values of a
\* maxspeed attribute.
SpeedPieces ==
    << <<"6", "0", " ", "m", "p", "h">>,
       <<"3", "0", " ", "m", "p", "h">>,
       <<"5", "0">>,
       <<"5", "0", " ", "k", "m", "/", "h">>,
       <<"7", "0", " ", "k", "p", "h">> >>

\* The values of several lanes in one string: a | b.
Piped(a, b) == a \o <<"|">> \o b

\* A value alone, two values in one string, two values in a list.
MultiValueInputs ==
    { StrMaxspeed(SpeedPieces[i]) : i \in 1..Len(SpeedPieces) }
    \cup { StrMaxspeed(Piped(SpeedPieces[i], SpeedPieces[j])) :
              i \in 1..Len(SpeedPieces), j \in 1..Len(SpeedPieces) }
    \cup { ListMaxspeed(<<SpeedPieces[i], SpeedPieces[j]>>) :
              i \in 1..Len(SpeedPieces), j \in 1..Len(SpeedPieces) }

\* The number parts of the strings tried: "5", "0", "50", "120", "5.5",
\* "5,5", "12.5", "5..0", ".5", "", "x5", "fifty".
NumberTexts ==
    << <<"5">>, <<"0">>, <<"5", "0">>, <<"1", "2", "0">>, <<"5", ".", "5">>,
       <<"5", ",", "5">>, <<"1", "2", ".", "5">>, <<"5", ".", ".", "0">>,
       <<".", "5">>, <<>>, <<"x", "5">>, <<"f", "i", "f", "t", "y">> >>

\* What follows the number part: nothing, the units of the pattern, units
\* in other case, other words, and a line feed, a unit and a line feed,
\* two line feeds.
UnitTexts ==
    Units \cup
    { <<>>, <<"M", "P", "H">>, <<"K", "m", "/", "h">>, <<"K", "P", "H">>,
      <<"K", "n", "o", "t", "s">>, <<"m", "p">>, <<"m", "/", "s">>, <<"m", "p", "h", "s">>,
      <<Newline>>, <<"m", "p", "h", Newline>>, <<Newline, Newline>> }

\* The most spaces between the number part and what follows.
MaxSpaces == 2

Spaces(n) == [i \in 1..n |-> " "]

\* The string made of a number part, n spaces and a unit.
SpeedText(number, n, unit) == number \o Spaces(n) \o unit

SingleValueInputs ==
    { StrMaxspeed(SpeedText(NumberTexts[i], n, unit)) :
         i \in 1..Len(NumberTexts), n \in 0..MaxSpaces, unit \in UnitTexts }

\* "0.00001" and "0.00003": speeds under 0.0001.
SmallSpeeds ==
    << <<"0", ".", "0", "0", "0", "0", "1">>, <<"0", ".", "0", "0", "0", "0", "3">> >>

\* A small speed alone, in a list, and two of them in a list.
SmallValueInputs ==
    { StrMaxspeed(SmallSpeeds[1]), ListMaxspeed(<<SmallSpeeds[1]>>), ListMaxspeed(SmallSpeeds) }

InitNormalize ==
    /\ G = <<>>
    /\ op = "idle"
    /\ \E value \in MultiValueInputs \cup SingleValueInputs \cup SmallValueInputs,
          agg \in AggValues :
          args = [maxspeed |-> value, agg |-> agg]
    /\ result = Pending
    /\ pool = NoPool
    /\ gen = NoGenerator

NextNormalize == NormalizeSpeed

SpecNormalize == InitNormalize /\ [][NextNormalize]_vars

\* What each of SpeedPieces is in km/h on its own.
PieceKph ==
    << FloatMul(FloatOfNat(60), MILES_TO_KM), FloatMul(FloatOfNat(30), MILES_TO_KM),
       FloatOfNat(50), FloatOfNat(50), FloatOfNat(70) >>

\* The mean, or for "max" the greater, of two speeds.
AggregateOfTwo(agg, x, y) ==
    IF agg = "max" THEN (IF FloatLess(x, y) THEN y ELSE x)
    ELSE FloatDiv(FloatAdd(x, y), FloatOfNat(2))

\* C17: each value of a maxspeed that holds several is converted on its
\* own before they are aggregated, a value tagged mph being multiplied by
\* 1.60934 and any other left as it is: two values in one string give the
\* mean of what each is in km/h on its own, two values in a list give the
\* aggregate (agg) of the same, and "60 mph" alone gives 60 * 1.60934.
C17_EachValueConvertedOnItsOwn ==
    op = "normalize" =>
        /\ args.maxspeed = StrMaxspeed(SpeedPieces[1])
              => result = ReturnedSpeed(FloatMul(FloatOfNat(60), MILES_TO_KM))
        /\ \A i, j \in 1..Len(SpeedPieces) :
              /\ args.maxspeed = StrMaxspeed(Piped(SpeedPieces[i], SpeedPieces[j]))
                    => result = ReturnedSpeed(AggregateOfTwo("mean", PieceKph[i], PieceKph[j]))
              /\ args.maxspeed = ListMaxspeed(<<SpeedPieces[i], SpeedPieces[j]>>)
                    => result = ReturnedSpeed(AggregateOfTwo(args.agg, PieceKph[i], PieceKph[j]))

\* What the code does: C17 holds of a value alone and of the values of a
\* list; of the values in one string, all are multiplied by 1.60934 as
\* soon as one of them is tagged mph.
C17_ConvertedTogetherInOneString ==
    op = "normalize" =>
        /\ \A i \in 1..Len(SpeedPieces) :
              args.maxspeed = StrMaxspeed(SpeedPieces[i]) => result = ReturnedSpeed(PieceKph[i])
        /\ \A i, j \in 1..Len(SpeedPieces) :
              /\ args.maxspeed = ListMaxspeed(<<SpeedPieces[i], SpeedPieces[j]>>)
                    => result = ReturnedSpeed(AggregateOfTwo(args.agg, PieceKph[i], PieceKph[j]))
              /\ args.maxspeed = StrMaxspeed(Piped(SpeedPieces[i], SpeedPieces[j]))
                    => result = ReturnedSpeed(
                          IF Contains(SpeedPieces[i], Mph) \/ Contains(SpeedPieces[j], Mph)
                          THEN AggregateOfTwo("mean",
                                              IF Contains(SpeedPieces[i], Mph)
                                              THEN PieceKph[i]
                                              ELSE FloatMul(PieceKph[i], MILES_TO_KM),
                                              IF Contains(SpeedPieces[j], Mph)
                                              THEN PieceKph[j]
                                              ELSE FloatMul(PieceKph[j], MILES_TO_KM))
                          ELSE AggregateOfTwo("mean", PieceKph[i], PieceKph[j]))

\* The numbers that the first of NumberTexts write: 5, 0, 50, 120, 5.5,
\* 5,5 and 12.5.  The others are not numbers.
NumberValues ==
    << FloatOfNat(5), Zero, FloatOfNat(50), FloatOfNat(120), Float(11, 2), Float(11, 2),
       Float(25, 2) >>

\* The unit is one of km/h, kmh, kph, mph, knots, in any case of letters.
IsUnitInAnyCase(unit) == Lower(unit) \in Units

\* C18: a string made of a number, then nothing or a unit in any case of
\* letters with at most one space before it, is read as that number,
\* multiplied by 1.60934 when the unit is mph (knots: as some number); the
\* number may be a single digit and may have a decimal comma.  A string
\* whose number part is not a number, whose unit is not one of the five, or
\* that has two spaces gives no value.  (Nothing is required of a number
\* followed by one space and no unit.)
C18_AcceptsNumberSpaceUnitInAnyCase ==
    op = "normalize" =>
        \A i \in 1..Len(NumberTexts), n \in 0..MaxSpaces, unit \in UnitTexts :
            args.maxspeed = StrMaxspeed(SpeedText(NumberTexts[i], n, unit)) =>
                IF /\ i <= Len(NumberValues)
                   /\ \/ unit = <<>> /\ n = 0
                      \/ IsUnitInAnyCase(unit) /\ n <= 1
                THEN IF Lower(unit) = Mph
                     THEN result = ReturnedSpeed(FloatMul(NumberValues[i], MILES_TO_KM))
                     ELSE IF Lower(unit) = <<"k", "n", "o", "t", "s">>
                     THEN ~IsNaN(result.items[1])
                     ELSE result = ReturnedSpeed(NumberValues[i])
                ELSE IF i <= Len(NumberValues) /\ unit = <<>> /\ n = 1
                THEN TRUE
                ELSE result = ReturnedSpeed(NaN)

\* The string without the line feed that ends it, if one does.
WithoutLineFeed(cs) ==
    IF cs # <<>> /\ cs[Len(cs)] = Newline THEN SubSeq(cs, 1, Len(cs) - 1) ELSE cs

\* What the code does: the number part must have at least two characters,
\* so that a single digit gives no value, and the unit must be written in
\* lower case; a value in knots is left as it is; one line feed at the end
\* of the string is passed over.
C18_AcceptsAsThePatternDoes ==
    op = "normalize" =>
        \A i \in 1..Len(NumberTexts), n \in 0..MaxSpaces, unit \in UnitTexts :
            args.maxspeed = StrMaxspeed(SpeedText(NumberTexts[i], n, unit)) =>
                IF /\ i <= Len(NumberValues)
                   /\ Len(NumberTexts[i]) >= 2
                   /\ \/ WithoutLineFeed(unit) = <<>> /\ n = 0
                      \/ WithoutLineFeed(unit) \in Units /\ n <= 1
                THEN IF WithoutLineFeed(unit) = Mph
                     THEN result = ReturnedSpeed(FloatMul(NumberValues[i], MILES_TO_KM))
                     ELSE result = ReturnedSpeed(NumberValues[i])
                ELSE result = ReturnedSpeed(NaN)

\* What the code does with a speed under 0.0001: alone in a string it is
\* read as it is; in a list it is collapsed to a float that astype(str)
\* writes in exponent notation, which the pattern does not match, and the
\* edge has no value.
SmallSpeedReadUnlessInList ==
    op = "normalize" =>
        /\ args.maxspeed = StrMaxspeed(SmallSpeeds[1])
              => result = ReturnedSpeed(Float(1, 100000))
        /\ args.maxspeed \in { ListMaxspeed(<<SmallSpeeds[1]>>), ListMaxspeed(SmallSpeeds) }
              => result = ReturnedSpeed(NaN)

====
